---- MODULE Spec2Model ----
(***************************************************************************)
(* PixelProof: the quota / customer-resolution unit (lib/billing/quota.js) *)
(* and the compare API route (pages/api/compare.js) that calls it.         *)
(*                                                                         *)
(* Every request is a process whose position (pc) is the external call it  *)
(* is about to issue; one action performs that call and all synchronous    *)
(* code up to the next await.  The payment processor, the auth provider    *)
(* and the document database are shared state.                             *)
(***************************************************************************)
EXTENDS Integers, Sequences, FiniteSets, TLC

(***************************************************************************)
(* Bounds                                                                  *)
(***************************************************************************)
NReq == 2
NReqDay == 3
MaxDay == 1

\* request slots; a configuration starts with NReq or NReqDay of them in use
Reqs == 1..NReqDay
Day0 == 0
Uids == {"u1", "u2"}
NoUid == ""
NoCust == ""
NoPlan == "none"
NoEmail == ""
Email1 == "e1"

(***************************************************************************)
(* Strings that the code inspects character by character                   *)
(***************************************************************************)
UpperChars == <<"A","B","C","D","E","F","G","H","I","J","K","L","M",
                "N","O","P","Q","R","S","T","U","V","W","X","Y","Z">>
LowerChars == <<"a","b","c","d","e","f","g","h","i","j","k","l","m",
                "n","o","p","q","r","s","t","u","v","w","x","y","z">>

LowerChar(c) ==
  IF \E i \in 1..Len(UpperChars) : UpperChars[i] = c
    THEN LowerChars[CHOOSE i \in 1..Len(UpperChars) : UpperChars[i] = c]
    ELSE c

toLowerCase(s) == [i \in 1..Len(s) |-> LowerChar(s[i])]

includes(hay, needle) ==
  \E i \in 1..(Len(hay) - Len(needle) + 1) :
     SubSeq(hay, i, i + Len(needle) - 1) = needle

STR_basic == <<"b","a","s","i","c">>
STR_pro == <<"p","r","o">>
STR_elite == <<"e","l","i","t","e">>

(***************************************************************************)
(* Environment: configured price ids                                       *)
(***************************************************************************)
STRIPE_PRICE_BASIC == "price_basic"
STRIPE_PRICE_PRO == "price_pro"
STRIPE_PRICE_ELITE == "price_elite"

NullPrice == [id |-> "", nickname |-> <<>>, lookup_key |-> <<>>]

envMap(priceId) ==
  IF priceId = STRIPE_PRICE_ELITE THEN "elite"
  ELSE IF priceId = STRIPE_PRICE_PRO THEN "pro"
  ELSE IF priceId = STRIPE_PRICE_BASIC THEN "basic"
  ELSE NoPlan

\* variant: the text of the price is consulted before its id
planFromPrice_TextFirst(price) ==
  LET nickname == toLowerCase(price.nickname)
      lookupKey == toLowerCase(price.lookup_key)
  IN  IF includes(lookupKey, STR_basic) \/ includes(nickname, STR_basic) THEN "basic"
      ELSE IF includes(lookupKey, STR_pro) \/ includes(nickname, STR_pro) THEN "pro"
      ELSE IF includes(lookupKey, STR_elite) \/ includes(nickname, STR_elite) THEN "elite"
      ELSE IF price.id # "" /\ envMap(price.id) # NoPlan THEN envMap(price.id)
      ELSE NoPlan

planFromPrice(price) ==
  LET nickname == toLowerCase(price.nickname)
      lookupKey == toLowerCase(price.lookup_key)
  IN  IF price.id # "" /\ envMap(price.id) # NoPlan THEN envMap(price.id)
      ELSE IF includes(lookupKey, STR_basic) \/ includes(nickname, STR_basic) THEN "basic"
      ELSE IF includes(lookupKey, STR_pro) \/ includes(nickname, STR_pro) THEN "pro"
      ELSE IF includes(lookupKey, STR_elite) \/ includes(nickname, STR_elite) THEN "elite"
      ELSE NoPlan

(***************************************************************************)
(* Time.  Date.now() is in milliseconds, Stripe's current_period_end in    *)
(* seconds; the day key of todayKey() is the index of the day.             *)
(***************************************************************************)
SecPerDay == 86400
MsPerSec == 1000

DateNow(day) == day * SecPerDay * MsPerSec
todayKey(day) == day

\* variant: a past_due subscription gets a grace period
isUsable_PastDue(sub, nowMs) ==
  IF sub.status \notin {"active", "trialing", "past_due"} THEN FALSE
  ELSE IF sub.cancel_at_period_end THEN (sub.current_period_end * MsPerSec) > nowMs
  ELSE TRUE

isUsable(sub, nowMs) ==
  IF sub.status \notin {"active", "trialing"} THEN FALSE
  ELSE IF sub.cancel_at_period_end THEN (sub.current_period_end * MsPerSec) > nowMs
  ELSE TRUE

\* subs.data.find(isUsable): the first usable subscription of the list, or none
FirstUsable(list, nowMs) ==
  LET idx == {i \in 1..Len(list) : isUsable(list[i], nowMs)}
  IN  IF idx = {} THEN 0 ELSE CHOOSE i \in idx : \A j \in idx : i <= j

PlanOfList(list, nowMs) ==
  LET i == FirstUsable(list, nowMs)
  IN  IF i = 0 THEN NoPlan
      ELSE planFromPrice(IF Len(list[i].items) > 0 THEN list[i].items[1] ELSE NullPrice)

(***************************************************************************)
(* The worlds the requests run in: prices, subscriptions and customers at  *)
(* the payment processor, and the plan limits of lib/billing/limit.        *)
(***************************************************************************)
PriceBasic == [id |-> STRIPE_PRICE_BASIC, nickname |-> <<>>, lookup_key |-> <<>>]
PriceProNickBasic ==
  [id |-> STRIPE_PRICE_PRO, nickname |-> <<"B","a","s","i","c">>, lookup_key |-> <<>>]
PriceEliteNick ==
  [id |-> "price_x", nickname |-> <<"E","l","i","t","e">>, lookup_key |-> <<>>]
PriceUnknown ==
  [id |-> "price_y", nickname |-> <<"G","o","l","d">>, lookup_key |-> <<>>]

Sub(status, cape, cpe, items) ==
  [status |-> status, cancel_at_period_end |-> cape,
   current_period_end |-> cpe, items |-> items]

EndOfDay0 == (Day0 + 1) * SecPerDay

\* subscription lists as stripe.subscriptions.list returns them
SubLists ==
  << <<>>,
     << Sub("active", FALSE, EndOfDay0, <<PriceBasic>>) >>,
     << Sub("canceled", FALSE, EndOfDay0, <<PriceBasic>>),
        Sub("trialing", FALSE, EndOfDay0, <<PriceProNickBasic>>) >>,
     << Sub("active", TRUE, EndOfDay0, <<PriceEliteNick>>),
        Sub("past_due", FALSE, EndOfDay0, <<PriceBasic>>) >>,
     << Sub("active", FALSE, EndOfDay0, <<PriceUnknown>>),
        Sub("active", FALSE, EndOfDay0, <<PriceBasic>>) >> >>

SubListIds == 1..Len(SubLists)
SubListBasic == 2
SubListPro == 3
SubListIdsSecond == {1, SubListPro}

Cust1 == [id |-> "c1", uid |-> "u1", email |-> Email1, created |-> 1]
Cust2 == [id |-> "c2", uid |-> NoUid, email |-> Email1, created |-> 2]
NewId(r) == <<"n1", "n2", "n3", "n4">>[r]
CustIds == {"c1", "c2"} \cup {NewId(r) : r \in Reqs}

Plans == {"basic", "pro", "elite"}
LimitBasic == 1
LimitPro == 2
LimitElite == 3
LimitTables ==
  { [basic |-> LimitBasic, pro |-> LimitPro, elite |-> LimitElite],
    [basic |-> 0, pro |-> LimitPro, elite |-> LimitElite] }

\* users/{uid} without billing fields
NoUser ==
  [stripeCustomerId |-> NoCust,
   snapshot |-> [activePlan |-> NoPlan, subscriptionStatus |-> "none"]]

NoDoc == [exists |-> FALSE, day |-> Day0, count |-> 0, max |-> 0, plan |-> NoPlan, ver |-> 0]
Doc(day, count, max, plan, ver) ==
  [exists |-> TRUE, day |-> day, count |-> count, max |-> max, plan |-> plan, ver |-> ver]

Snapshots ==
  { [activePlan |-> NoPlan, subscriptionStatus |-> "none"],
    [activePlan |-> "elite", subscriptionStatus |-> "active"] }

VARIABLES
  today,      \* the current day (todayKey) and clock (Date.now)
  limits,     \* limitForPlan as a table
  customers,  \* the processor's customer objects
  subs,       \* customer id -> its subscription list
  users,      \* users/{uid}
  quota,      \* users/{uid}/quota/daily
  req,        \* the requests in flight
  used0,      \* history: the count used on Day0 before the first request
  hookEnv,        \* the webhook route's environment variables
  stripeEvents,   \* collection stripeEvents
  stripeOrphans,  \* collection stripeOrphans
  hook,           \* webhook deliveries in flight
  sessions,       \* the processor's completed checkout sessions
  portal,         \* billing-portal requests in flight
  statusLive,     \* live-status requests in flight
  checkout,       \* the checkout request in flight
  upload,         \* the avatar upload in flight
  avatars,        \* the avatar bucket and the photoURL fields
  page,           \* the utility page in the browser
  probe           \* an input of a pure function, and its result once applied

hookVars == <<hookEnv, stripeEvents, stripeOrphans, hook>>
portalVars == <<sessions, portal>>
checkoutVars == <<checkout>>
uploadVars == <<upload, avatars>>
pageVars == <<page>>
routeVars == <<statusLive, checkoutVars, uploadVars, pageVars>>
otherVars == <<hookVars, portalVars, routeVars, probe>>
quotaVars == <<today, limits, subs, quota, req, used0>>

vars == <<today, limits, customers, subs, users, quota, req, used0, otherVars>>

limitForPlan(plan) == IF plan \in Plans THEN limits[plan] ELSE 0

IdleReq ==
  [pc |-> "idle", method |-> "", openaiKey |-> FALSE, bearer |-> FALSE,
   token |-> "", verified |-> FALSE, uid |-> NoUid, cust |-> NoCust, email |-> NoEmail,
   plan |-> NoPlan, max |-> 0, day |-> Day0, used |-> 0, rver |-> 0,
   attempts |-> 0, commits |-> 0, qres |-> "none", openai |-> 0,
   status |-> 0, code |-> "", trace |-> <<>>]

\* a slot no request arrives on
OffReq == [IdleReq EXCEPT !.pc = "off"]

\* documents an earlier successful call can have left
InitDocs(lim) ==
  {NoDoc}
  \cup {Doc(Day0, c, lim[p], p, 0) : p \in {q \in Plans : lim[q] > 0}, c \in 1..LimitPro}
  \cup {Doc(Day0, LimitElite, LimitElite, "elite", 0)}
  \cup {Doc(Day0 - 1, LimitElite, LimitElite, "elite", 0)}

\* the webhook route, the portal route and the function probe at rest
NoProbe ==
  [fn |-> "none", sub |-> Sub("none", FALSE, 0, <<>>), nowMs |-> 0, price |-> NullPrice,
   out |-> "none"]
QuietHook ==
  /\ hookEnv = [NODE_ENV |-> "production", DEV_WEBHOOK_NO_VERIFY |-> "", STRIPE_WEBHOOK_SECRET |-> <<>>]
  /\ stripeEvents = {}
  /\ stripeOrphans = {}
  /\ hook = <<>>
QuietPortal == sessions = {} /\ portal = <<>>
QuietRoutes ==
  /\ statusLive = <<>>
  /\ checkout = [pc |-> "off"]
  /\ upload = [pc |-> "off"]
  /\ avatars = [bucket |-> FALSE]
  /\ page = [user |-> FALSE]
QuietProbe == probe = NoProbe
\* the compare route at rest
QuietQuota ==
  /\ today = Day0
  /\ limits = [basic |-> LimitBasic, pro |-> LimitPro, elite |-> LimitElite]
  /\ quota = [u \in Uids |-> NoDoc]
  /\ used0 = [u \in Uids |-> 0]
  /\ req = [r \in Reqs |-> OffReq]

Init ==
  /\ QuietHook /\ QuietPortal /\ QuietRoutes /\ QuietProbe
  /\ today = Day0
  /\ limits \in LimitTables
  /\ customers \in SUBSET {Cust1, Cust2}
  /\ \E l1 \in SubListIds,
        l2 \in IF Cust1 \in customers THEN {SubListPro} ELSE SubListIdsSecond :
        subs = [c \in CustIds |->
                  IF c = "c1" /\ Cust1 \in customers THEN SubLists[l1]
                  ELSE IF c = "c2" /\ Cust2 \in customers THEN SubLists[l2]
                  ELSE <<>>]
  /\ \E cached \in {NoCust} \cup {c.id : c \in customers}, snap \in Snapshots :
        users = [u \in Uids |->
                   IF u = "u1" THEN [stripeCustomerId |-> cached, snapshot |-> snap]
                   ELSE NoUser]
  /\ \E d \in InitDocs(limits) :
        /\ d.exists => d.count <= d.max
        /\ quota = [u \in Uids |-> IF u = "u1" THEN d ELSE NoDoc]
  /\ used0 = [u \in Uids |-> IF quota[u].exists /\ quota[u].day = Day0 THEN quota[u].count ELSE 0]
  /\ req = [r \in Reqs |-> IF r <= NReq THEN IdleReq ELSE OffReq]

(***************************************************************************)
(* pages/api/compare.js: responses                                         *)
(***************************************************************************)
\* res.status(status).json({ error_code: code }); the request's locals die with it
Respond(rec, status, code) ==
  [rec EXCEPT !.pc = "done", !.status = status, !.code = code,
              !.token = "", !.cust = NoCust, !.email = NoEmail, !.day = Day0, !.used = 0,
              !.rver = 0, !.trace = <<>>]

\* variant: the catch block answers every failure alike
QuotaErrorResponse_AllForbidden(errCode) == [status |-> 403, code |-> "FORBIDDEN"]

\* the catch block around checkAndConsumeQuota
QuotaErrorResponse(errCode) ==
  IF errCode = "NO_PLAN" THEN [status |-> 403, code |-> "NO_PLAN"]
  ELSE IF errCode = "LIMIT_EXCEEDED" THEN [status |-> 429, code |-> "LIMIT_EXCEEDED"]
  ELSE [status |-> 403, code |-> "FORBIDDEN"]

\* checkAndConsumeQuota throws an error whose .code is errCode
QuotaThrow(rec, errCode) ==
  LET resp == QuotaErrorResponse(errCode)
  IN  Respond([rec EXCEPT !.qres = errCode], resp.status, resp.code)

Headers ==
  { [bearer |-> FALSE, cred |-> "tok_u1"],
    [bearer |-> TRUE, cred |-> ""],
    [bearer |-> TRUE, cred |-> "bad"],
    [bearer |-> TRUE, cred |-> "tok_u1"],
    [bearer |-> TRUE, cred |-> "tok_anon"] }

\* authAdmin.verifyIdToken: the decoded uid of a token the provider accepts
ValidTokens == {"tok_u1", "tok_anon"}
TokenUid(tok) == IF tok = "tok_u1" THEN "u1" ELSE NoUid

\* authAdmin.getUser(uid).email
AuthEmail(uid) == IF uid = "u1" THEN Email1 ELSE NoEmail

\* one strategy of resolveStripeCustomerId has run, and whether it yielded a customer
Tried(rec, strategy, found) ==
  [rec EXCEPT !.trace = Append(@, [s |-> strategy, found |-> found])]

Newest(S) == CHOOSE c \in S : \A d \in S : c.created >= d.created
NextCreated ==
  IF customers = {} THEN 1 ELSE 1 + Newest(customers).created

ByUid(uid) == {c \in customers : c.uid = uid}
ByEmail(email) == {c \in customers : c.email = email}

(***************************************************************************)
(* handler, up to the first await                                          *)
(***************************************************************************)
Receive(r) ==
  /\ req[r].pc = "idle"
  /\ \E method \in {"POST", "GET"}, openaiKey \in BOOLEAN, h \in Headers :
       LET idToken == IF h.bearer THEN h.cred ELSE ""
           rec == [req[r] EXCEPT !.method = method, !.openaiKey = openaiKey,
                                 !.bearer = idToken # ""]
       IN  req' = [req EXCEPT ![r] =
             IF method # "POST" THEN Respond(rec, 405, "BAD_METHOD")
             ELSE IF ~openaiKey THEN Respond(rec, 500, "CONFIG")
             ELSE IF idToken = "" THEN Respond(rec, 401, "NO_AUTH")
             ELSE [rec EXCEPT !.pc = "verify", !.token = idToken]]
  /\ UNCHANGED <<today, limits, customers, subs, users, quota, used0, otherVars>>

\* variant: the catch of verifyIdToken does not return
Verify_NoReturn(r) ==
  /\ req[r].pc = "verify"
  /\ \E accepted \in BOOLEAN :
       req' = [req EXCEPT ![r] =
         IF @.token \notin ValidTokens THEN Respond(@, 401, "BAD_TOKEN")
         ELSE LET uid == TokenUid(@.token)
                  rec == [@ EXCEPT !.verified = accepted, !.uid = uid]
              IN  IF uid = NoUid THEN QuotaThrow(rec, "NO_PLAN")
                  ELSE [rec EXCEPT !.pc = "q_userget"]]
  /\ UNCHANGED <<today, limits, customers, subs, users, quota, used0, otherVars>>

\* verifyIdToken, then the synchronous head of checkAndConsumeQuota
Verify(r) ==
  /\ req[r].pc = "verify"
  /\ \E accepted \in BOOLEAN :
       req' = [req EXCEPT ![r] =
         IF ~(accepted /\ @.token \in ValidTokens) THEN Respond(@, 401, "BAD_TOKEN")
         ELSE LET uid == TokenUid(@.token)
                  rec == [@ EXCEPT !.verified = TRUE, !.uid = uid]
              IN  IF uid = NoUid THEN QuotaThrow(rec, "NO_PLAN")
                  ELSE [rec EXCEPT !.pc = "q_userget"]]
  /\ UNCHANGED <<today, limits, customers, subs, users, quota, used0, otherVars>>

(***************************************************************************)
(* resolveStripeCustomerId                                                 *)
(***************************************************************************)
\* userRef.get(); a rejected read leaves resolveStripeCustomerId as an exception
UserGet(r) ==
  /\ req[r].pc = "q_userget"
  /\ \E ok \in BOOLEAN :
       LET cached == users[req[r].uid].stripeCustomerId
       IN  req' = [req EXCEPT ![r] =
             IF ~ok THEN QuotaThrow(@, "ERROR")
             ELSE IF cached # NoCust
               THEN [Tried(@, "cached", TRUE) EXCEPT !.cust = cached, !.pc = "q_subs"]
               ELSE [Tried(@, "cached", FALSE) EXCEPT !.pc = "q_searchuid"]]
  /\ UNCHANGED <<today, limits, customers, subs, users, quota, used0, otherVars>>

SearchUid(r) ==
  /\ req[r].pc = "q_searchuid"
  /\ \E ok \in BOOLEAN :
       LET found == ByUid(req[r].uid)
       IN  req' = [req EXCEPT ![r] =
             IF ok /\ found # {}
               THEN [Tried(@, "uid", TRUE) EXCEPT !.cust = Newest(found).id, !.pc = "q_cache"]
               ELSE [Tried(@, "uid", FALSE) EXCEPT !.pc = "q_getuser"]]
  /\ UNCHANGED <<today, limits, customers, subs, users, quota, used0, otherVars>>

GetUser(r) ==
  /\ req[r].pc = "q_getuser"
  /\ \E ok \in BOOLEAN :
       LET email == IF ok THEN AuthEmail(req[r].uid) ELSE NoEmail
       IN  req' = [req EXCEPT ![r] =
             [@ EXCEPT !.email = email,
                       !.pc = IF email # NoEmail THEN "q_searchemail" ELSE "q_create"]]
  /\ UNCHANGED <<today, limits, customers, subs, users, quota, used0, otherVars>>

SearchEmail(r) ==
  /\ req[r].pc = "q_searchemail"
  /\ \E ok \in BOOLEAN :
       LET found == ByEmail(req[r].email)
       IN  req' = [req EXCEPT ![r] =
             IF ~ok THEN [Tried(@, "email", FALSE) EXCEPT !.pc = "q_listemail"]
             ELSE IF found # {}
               THEN [Tried(@, "email", TRUE) EXCEPT !.cust = Newest(found).id, !.pc = "q_cache"]
               ELSE [Tried(@, "email", FALSE) EXCEPT !.pc = "q_create"]]
  /\ UNCHANGED <<today, limits, customers, subs, users, quota, used0, otherVars>>

ListEmail(r) ==
  /\ req[r].pc = "q_listemail"
  /\ \E ok \in BOOLEAN :
       LET found == ByEmail(req[r].email)
       IN  req' = [req EXCEPT ![r] =
             IF ~ok THEN QuotaThrow(Tried(@, "list", FALSE), "ERROR")
             ELSE IF found # {}
               THEN [Tried(@, "list", TRUE) EXCEPT !.cust = Newest(found).id, !.pc = "q_cache"]
               ELSE [Tried(@, "list", FALSE) EXCEPT !.pc = "q_create"]]
  /\ UNCHANGED <<today, limits, customers, subs, users, quota, used0, otherVars>>

Create(r) ==
  /\ req[r].pc = "q_create"
  /\ \E ok \in BOOLEAN :
       IF ~ok
         THEN /\ req' = [req EXCEPT ![r] = QuotaThrow(Tried(@, "create", FALSE), "ERROR")]
              /\ UNCHANGED customers
         ELSE /\ customers' = customers \cup
                   {[id |-> NewId(r), uid |-> req[r].uid, email |-> req[r].email,
                     created |-> NextCreated]}
              /\ req' = [req EXCEPT ![r] =
                   [Tried(@, "create", TRUE) EXCEPT !.cust = NewId(r), !.pc = "q_cache"]]
  /\ UNCHANGED <<today, limits, subs, users, quota, used0, otherVars>>

\* the strategy whose hit is being cached
Site(rec) == rec.trace[Len(rec.trace)].s

\* where a rejected userRef.set leaves the call: the writes of the two
\* searches stand inside their try blocks, so the catch meant for the search
\* swallows the rejection and the next strategy runs; the writes after the
\* list fallback and after customers.create are not guarded
CacheFailed(rec) ==
  IF Site(rec) = "uid" THEN [rec EXCEPT !.cust = NoCust, !.pc = "q_getuser"]
  ELSE IF Site(rec) = "email" THEN [rec EXCEPT !.cust = NoCust, !.pc = "q_listemail"]
  ELSE QuotaThrow(rec, "ERROR")

\* userRef.set({ stripeCustomerId }, { merge: true }); return customerId
Cache(r) ==
  /\ req[r].pc = "q_cache"
  /\ \E ok \in BOOLEAN :
       IF ok
         THEN /\ users' = [users EXCEPT ![req[r].uid].stripeCustomerId = req[r].cust]
              /\ req' = [req EXCEPT ![r].pc = "q_subs"]
         ELSE /\ req' = [req EXCEPT ![r] = CacheFailed(@)]
              /\ UNCHANGED users
  /\ UNCHANGED <<today, limits, customers, subs, quota, used0, otherVars>>

(***************************************************************************)
(* getPlanFromStripeCustomer and the rest of checkAndConsumeQuota          *)
(***************************************************************************)
\* variant: without a usable subscription the cached plan of the user record counts
getPlan_CachedFallback(stripeCustomerId) ==
  LET live == PlanOfList(subs[stripeCustomerId], DateNow(today))
      owners == {u \in Uids : users[u].stripeCustomerId = stripeCustomerId}
  IN  IF live # NoPlan \/ owners = {} THEN live
      ELSE users[CHOOSE u \in owners : TRUE].snapshot.activePlan

getPlanFromStripeCustomer(stripeCustomerId) ==
  PlanOfList(subs[stripeCustomerId], DateNow(today))

\* variant: only a negative limit is refused
NoLimit_Negative(max) == max < 0

\* if (max <= 0)
NoLimit(max) == max <= 0

\* stripe.subscriptions.list, then the plan and limit checks, then todayKey()
ListSubs(r) ==
  /\ req[r].pc = "q_subs"
  /\ \E ok \in BOOLEAN :
       LET plan == getPlanFromStripeCustomer(req[r].cust)
           max == limitForPlan(plan)
       IN  req' = [req EXCEPT ![r] =
             IF ~ok THEN QuotaThrow(@, "ERROR")
             ELSE IF plan = NoPlan THEN QuotaThrow(@, "NO_PLAN")
             ELSE IF NoLimit(max) THEN QuotaThrow([@ EXCEPT !.plan = plan], "NO_PLAN")
             ELSE [@ EXCEPT !.plan = plan, !.max = max, !.day = todayKey(today),
                            !.email = NoEmail, !.trace = <<>>, !.pc = "q_txget"]]
  /\ UNCHANGED <<today, limits, customers, subs, users, quota, used0, otherVars>>

\* variant: the stored count is used whatever its day
UsedOn_AnyDay(doc, day) == IF doc.exists THEN doc.count ELSE 0

\* const used = sameDay ? Number(s.get('count') || 0) : 0
UsedOn(doc, day) == IF doc.exists /\ doc.day = day THEN doc.count ELSE 0

\* variants of the comparison
LimitReached_Greater(used, max) == used > max
LimitReached_Equal(used, max) == used = max

\* if (used >= max)
LimitReached(used, max) == used >= max

\* one run of the transaction callback: t.get, the comparison, and t.set buffered
TxGet(r) ==
  /\ req[r].pc = "q_txget"
  /\ \E ok \in BOOLEAN :
       LET s == quota[req[r].uid]
           used == UsedOn(s, req[r].day)
           rec == [req[r] EXCEPT !.attempts = @ + 1, !.used = used, !.rver = s.ver]
       IN  req' = [req EXCEPT ![r] =
             IF ~ok THEN QuotaThrow([@ EXCEPT !.attempts = @ + 1], "ERROR")
             ELSE IF LimitReached(used, rec.max) THEN QuotaThrow(rec, "LIMIT_EXCEEDED")
             ELSE [rec EXCEPT !.pc = "q_txcommit"]]
  /\ UNCHANGED <<today, limits, customers, subs, users, quota, used0, otherVars>>

\* variant: the write leaves out max, so the merge keeps the stored one
QuotaWrite_KeepMax(rec, old) ==
  Doc(rec.day, rec.used + 1, IF old.exists THEN old.max ELSE rec.max, rec.plan, old.ver + 1)

\* variant: the count is written back without the increment
QuotaWrite_NoIncrement(rec, old) == Doc(rec.day, rec.used, rec.max, rec.plan, old.ver + 1)

\* t.set(quotaRef, { day: today, count: used + 1, max, plan }, { merge: true })
QuotaWrite(rec, old) == Doc(rec.day, rec.used + 1, rec.max, rec.plan, old.ver + 1)

\* variant: read and write without a transaction
CommitAllowed_Always(r) == TRUE

\* the document was not written since this attempt read it
CommitAllowed(r) == quota[req[r].uid].ver = req[r].rver

\* commit of the transaction: the write lands, or the database reruns the
\* callback, or the database rejects the transaction and nothing is written
TxCommit(r) ==
  /\ req[r].pc = "q_txcommit"
  /\ \E ok \in BOOLEAN :
     IF ~ok
       THEN /\ req' = [req EXCEPT ![r] = QuotaThrow(@, "ERROR")]
            /\ UNCHANGED quota
     ELSE IF CommitAllowed(r)
       THEN /\ quota' = [quota EXCEPT ![req[r].uid] = QuotaWrite(req[r], @)]
            /\ req' = [req EXCEPT ![r] =
                   [@ EXCEPT !.commits = @ + 1, !.qres = "ok", !.pc = "parse",
                             !.cust = NoCust, !.used = 0, !.rver = 0,
                             !.attempts = 0]]
       ELSE /\ req' = [req EXCEPT ![r].pc = "q_txget"]
            /\ UNCHANGED quota
  /\ UNCHANGED <<today, limits, customers, subs, users, used0, otherVars>>

(***************************************************************************)
(* handler, after the quota step                                           *)
(***************************************************************************)
\* variant: a failed upload gives the attempt back
Parse_Refund(r) ==
  /\ req[r].pc = "parse"
  /\ \E out \in {"ok", "BAD_MULTIPART", "BAD_IMAGE", "MISSING_IMAGES", "FILE_READ_ERROR"} :
       /\ req' = [req EXCEPT ![r] =
            IF out = "ok" THEN [@ EXCEPT !.pc = "openai"]
            ELSE IF out = "FILE_READ_ERROR" THEN Respond(@, 500, out)
            ELSE Respond(@, 400, out)]
       /\ quota' = IF out = "ok" THEN quota
                   ELSE [quota EXCEPT ![req[r].uid].count = @ - 1]
  /\ UNCHANGED <<today, limits, customers, subs, users, used0, otherVars>>

\* parseMultipart, the image checks and fs.readFile: local to the request
Parse(r) ==
  /\ req[r].pc = "parse"
  /\ \E out \in {"ok", "BAD_MULTIPART", "BAD_IMAGE", "MISSING_IMAGES", "FILE_READ_ERROR"} :
       req' = [req EXCEPT ![r] =
         IF out = "ok" THEN [@ EXCEPT !.pc = "openai"]
         ELSE IF out = "FILE_READ_ERROR" THEN Respond(@, 500, out)
         ELSE Respond(@, 400, out)]
  /\ UNCHANGED <<today, limits, customers, subs, users, quota, used0, otherVars>>

\* a request that called the vision model, answered; its day key stays on
\* record as the day the call was counted under
Called(rec, status, code) ==
  [Respond([rec EXCEPT !.openai = @ + 1], status, code) EXCEPT !.day = rec.day]

\* openai.chat.completions.create and the answer
OpenAI(r) ==
  /\ req[r].pc = "openai"
  /\ \E out \in {"ok", "OPENAI_EMPTY", "OPENAI_ERROR"} :
       req' = [req EXCEPT ![r] =
         IF out = "ok" THEN Called(@, 200, "")
         ELSE Called(@, 502, out)]
  /\ UNCHANGED <<today, limits, customers, subs, users, quota, used0, otherVars>>

\* the clock passes midnight
Midnight ==
  /\ today < MaxDay
  /\ today' = today + 1
  /\ UNCHANGED <<limits, customers, subs, users, quota, req, used0, otherVars>>

Next ==
  \/ \E r \in Reqs : Receive(r)
  \/ \E r \in Reqs : Verify(r)
  \/ \E r \in Reqs : UserGet(r)
  \/ \E r \in Reqs : SearchUid(r)
  \/ \E r \in Reqs : GetUser(r)
  \/ \E r \in Reqs : SearchEmail(r)
  \/ \E r \in Reqs : ListEmail(r)
  \/ \E r \in Reqs : Create(r)
  \/ \E r \in Reqs : Cache(r)
  \/ \E r \in Reqs : ListSubs(r)
  \/ \E r \in Reqs : TxGet(r)
  \/ \E r \in Reqs : TxCommit(r)
  \/ \E r \in Reqs : Parse(r)
  \/ \E r \in Reqs : OpenAI(r)
  \/ Midnight

Spec == Init /\ [][Next]_vars

\* three requests of one user on a basic plan across midnight
InitDay ==
  /\ QuietHook /\ QuietPortal /\ QuietRoutes /\ QuietProbe
  /\ today = Day0
  /\ limits = [basic |-> LimitBasic, pro |-> LimitPro, elite |-> LimitElite]
  /\ customers = {Cust1}
  /\ subs = [c \in CustIds |-> IF c = "c1" THEN SubLists[SubListBasic] ELSE <<>>]
  /\ users = [u \in Uids |->
               [stripeCustomerId |-> NoCust,
                snapshot |-> [activePlan |-> NoPlan, subscriptionStatus |-> "none"]]]
  /\ quota = [u \in Uids |-> NoDoc]
  /\ used0 = [u \in Uids |-> 0]
  /\ req = [r \in Reqs |-> IdleReq]

SpecDay == InitDay /\ [][Next]_vars

(***************************************************************************)
(* pages/api/stripe/webhook.js                                             *)
(***************************************************************************)
NHook == 2
Hooks == 1..NHook

\* String.prototype.trim and split on character sequences
RECURSIVE trimStart(_)
trimStart(s) == IF s # <<>> /\ Head(s) = " " THEN trimStart(Tail(s)) ELSE s

RECURSIVE trimEnd(_)
trimEnd(s) == IF s # <<>> /\ s[Len(s)] = " " THEN trimEnd(SubSeq(s, 1, Len(s) - 1)) ELSE s

trim(s) == trimEnd(trimStart(s))

RECURSIVE split(_, _)
split(s, sep) ==
  IF \A i \in 1..Len(s) : s[i] # sep THEN <<s>>
  ELSE LET i == CHOOSE k \in 1..Len(s) : s[k] = sep /\ \A j \in 1..(k - 1) : s[j] # sep
       IN  <<SubSeq(s, 1, i - 1)>> \o split(SubSeq(s, i + 1, Len(s)), sep)

\* parsedFromEnv.split(',').map(s => s.trim()).filter(Boolean)
secretsOf(raw) ==
  LET parsedFromEnv == trim(raw)
      pieces == split(parsedFromEnv, ",")
  IN  IF parsedFromEnv = <<>> THEN <<>>
      ELSE SelectSeq([i \in 1..Len(pieces) |-> trim(pieces[i])], LAMBDA x : x # <<>>)

\* the environments the route is deployed with
HookEnv(nodeEnv, noVerify, secret) ==
  [NODE_ENV |-> nodeEnv, DEV_WEBHOOK_NO_VERIFY |-> noVerify, STRIPE_WEBHOOK_SECRET |-> secret]

SecretAB == <<"a", ",", " ", "b">>
HookEnvs ==
  { HookEnv("production", "", SecretAB),
    HookEnv("production", "1", <<" ", ",", "a", ",">>),
    HookEnv("production", "true", <<"a">>),
    HookEnv("production", "", <<>>),
    HookEnv("development", "", <<"a">>) }

\* the secret a delivery's stripe-signature header was computed with
\* (empty: no header), and whether its body is JSON
Sigs == {<<>>, <<"a">>, <<"b">>, <<"x">>}
Bodies == {"event", "garbage"}

\* stripe.webhooks.constructEvent(buf, sig, secret)
constructEvent(d, secret) == d.sig = secret /\ d.body = "event"

\* variant: an unverified body is accepted everywhere
allowInsecure_Always(env) == TRUE

\* DEV_WEBHOOK_NO_VERIFY === 'true' || NODE_ENV !== 'production'
allowInsecure(env) == env.DEV_WEBHOOK_NO_VERIFY = "true" \/ env.NODE_ENV # "production"

parseStripeEvent(env, d) ==
  LET secrets == secretsOf(env.STRIPE_WEBHOOK_SECRET)
  IN  IF \E i \in 1..Len(secrets) : constructEvent(d, secrets[i])
        THEN [ok |-> TRUE, insecure |-> FALSE]
      ELSE IF allowInsecure(env) THEN [ok |-> d.body = "event", insecure |-> TRUE]
      ELSE [ok |-> FALSE, insecure |-> FALSE]

\* a reference to a customer inside an event object: an id, an expanded object or null
CustRef(kind, id) == [kind |-> kind, id |-> id]

SubObj(id, customer, status, price) ==
  [id |-> id, customer |-> customer, status |-> status, price |-> price]
NoSub == SubObj("", CustRef("null", NoCust), "none", NullPrice)

Session(id, mode, uid, customer, subscription) ==
  [id |-> id, mode |-> mode, uid |-> uid, customer |-> customer, subscription |-> subscription]
NoSession == Session("", "", NoUid, CustRef("null", NoCust), "")

Event(id, type, sub, session) == [id |-> id, type |-> type, sub |-> sub, session |-> session]
NoEvent == Event("", "", NoSub, NoSession)

SubTypes ==
  {"customer.subscription.created", "customer.subscription.updated",
   "customer.subscription.deleted"}
CheckoutType == "checkout.session.completed"

\* the subscriptions stripe.subscriptions.retrieve knows
StripeSubs ==
  { SubObj("sub_1", CustRef("string", "c1"), "active", PriceBasic),
    SubObj("sub_2", CustRef("string", "c2"), "trialing", PriceUnknown) }

Events ==
  { Event("evt_1", "customer.subscription.created",
          SubObj("sub_1", CustRef("string", "c1"), "active", PriceBasic), NoSession),
    Event("evt_2", "customer.subscription.deleted",
          SubObj("sub_1", CustRef("object", "c1"), "canceled", PriceBasic), NoSession),
    Event("evt_3", "customer.subscription.updated",
          SubObj("sub_3", CustRef("null", NoCust), "past_due", NullPrice), NoSession),
    Event("evt_4", CheckoutType, NoSub,
          Session("cs_1", "subscription", "u1", CustRef("string", "c2"), "sub_2")),
    Event("evt_5", CheckoutType, NoSub,
          Session("cs_2", "payment", "u1", CustRef("string", "c2"), "")),
    Event("evt_6", CheckoutType, NoSub,
          Session("cs_3", "subscription", NoUid, CustRef("string", "c1"), "sub_1")),
    Event("evt_7", CheckoutType, NoSub,
          Session("cs_4", "subscription", "u2", CustRef("object", "c1"), "sub_1")),
    Event("evt_8", "invoice.paid", NoSub, NoSession) }

\* subscription.customer normalised (lines 54-57)
SubCustomerId(sub) == IF sub.customer.kind = "null" THEN NoCust ELSE sub.customer.id

\* typeof session.customer === 'string' ? session.customer : null
SessionCustomerId(session) ==
  IF session.customer.kind = "string" THEN session.customer.id ELSE NoCust

\* PLAN_BY_PRICE[priceId] || price?.nickname || 'unknown'
hookPlan(price) ==
  IF price.id = "" THEN "unknown"
  ELSE IF envMap(price.id) # NoPlan THEN envMap(price.id)
  ELSE IF price.nickname # <<>> THEN "nickname"
  ELSE "unknown"

\* the fields of the payload that users/{uid} keeps
payload(sub) ==
  [stripeCustomerId |-> SubCustomerId(sub),
   snapshot |-> [activePlan |-> hookPlan(sub.price), subscriptionStatus |-> sub.status]]

\* collection.doc(key).set(doc): one document per key
DocSet(coll, doc) == {d \in coll : d.key # doc.key} \cup {doc}

logDoc(ev, uid, hint) == [key |-> ev.id, type |-> ev.type, uid |-> uid, hint |-> hint]

orphanDoc(sub) == [key |-> sub.id, customerId |-> SubCustomerId(sub), status |-> sub.status]

IdleHook ==
  [pc |-> "idle", sig |-> <<>>, body |-> "", ev |-> NoEvent, sub |-> NoSub, ctx |-> "",
   got |-> FALSE, metaAt |-> NoUid, target |-> NoUid, insecure |-> FALSE,
   status |-> 0, note |-> "", cause |-> "", writes |-> <<>>]

\* res.status(status); the locals of the delivery die with it
HookRespond(rec, status, note, cause) ==
  [rec EXCEPT !.pc = "done", !.status = status, !.note = note, !.cause = cause,
              !.sig = <<>>, !.body = "", !.sub = NoSub, !.ctx = "", !.got = FALSE,
              !.metaAt = NoUid, !.target = NoUid]

\* variant: every exception reaches the outer catch
HookThrow_Outer(rec, site) == HookRespond(rec, 400, "", site)

\* an exception at site: the inner try answers 200 with a note for the
\* subscription write of a subscription event, the outer catch answers 400
HookThrow(rec, site) ==
  IF site = "subwrite" THEN HookRespond(rec, 200, "sub write failed (see logs)", site)
  ELSE HookRespond(rec, 400, "", site)

\* this delivery wrote (or merged into) a document or a customer
Wrote(rec, coll, key, kind) ==
  [rec EXCEPT !.writes = Append(@, [coll |-> coll, key |-> key, kind |-> kind])]

\* metadata.uid of the customer at the processor, if the customer exists
MetaUid(cid) ==
  IF \E c \in customers : c.id = cid
    THEN (CHOOSE c \in customers : c.id = cid).uid
    ELSE NoUid

\* the first document of where('stripeCustomerId', '==', cid).limit(1)
Owners(cid) == {u \in Uids : users[u].stripeCustomerId = cid}
FirstUid(S) == IF "u1" \in S THEN "u1" ELSE CHOOSE u \in S : TRUE

\* writeFromSubscriptionEvent up to its first await
SubBegin(rec, sub, ctx) ==
  [rec EXCEPT !.sub = sub, !.ctx = ctx, !.got = FALSE, !.metaAt = NoUid, !.target = NoUid,
              !.pc = IF SubCustomerId(sub) # NoCust THEN "h_retrieve" ELSE "h_orphan"]

\* writeFromSubscriptionEvent returned
SubReturn(rec) ==
  IF rec.ctx = "event" THEN HookRespond(rec, 200, "", "")
  ELSE [rec EXCEPT !.pc = "h_log2", !.sub = NoSub, !.ctx = "", !.got = FALSE,
                   !.metaAt = NoUid, !.target = NoUid]

\* writeFromSubscriptionEvent threw: answered 200 with a note for an event,
\* warned about and dropped inside handleCheckoutCompleted
SubThrow(rec) ==
  IF rec.ctx = "event" THEN HookThrow(rec, "subwrite")
  ELSE [rec EXCEPT !.pc = "h_log2", !.sub = NoSub, !.ctx = "", !.got = FALSE,
                   !.metaAt = NoUid, !.target = NoUid]

\* variant: the mode of the session is not looked at
CheckoutBegin_AnyMode(rec) ==
  LET session == rec.ev.session
  IN  IF session.uid # NoUid /\ SessionCustomerId(session) # NoCust
        THEN [rec EXCEPT !.pc = "h_stamp"]
      ELSE IF session.subscription # "" THEN [rec EXCEPT !.pc = "h_subget"]
      ELSE [rec EXCEPT !.pc = "h_log2"]

\* handleCheckoutCompleted up to its first await
CheckoutBegin(rec) ==
  LET session == rec.ev.session
  IN  IF session.mode # "subscription" THEN [rec EXCEPT !.pc = "h_log2"]
      ELSE IF session.uid # NoUid /\ SessionCustomerId(session) # NoCust
        THEN [rec EXCEPT !.pc = "h_stamp"]
      ELSE IF session.subscription # "" THEN [rec EXCEPT !.pc = "h_subget"]
      ELSE [rec EXCEPT !.pc = "h_log2"]

\* variant: the handlers run without the event having been logged
AfterParse_NoLog(rec) ==
  IF rec.ev.type \in SubTypes THEN SubBegin(rec, rec.ev.sub, "event")
  ELSE IF rec.ev.type = CheckoutType THEN CheckoutBegin(rec)
  ELSE [rec EXCEPT !.pc = "h_log"]

\* after parseStripeEvent: await logStripeEvent({ event, rawLength })
AfterParse(rec) == [rec EXCEPT !.pc = "h_log"]

\* the request arrives; a method other than POST is answered 405
Arrive(h) ==
  /\ hook[h].pc = "idle"
  /\ \E method \in {"POST", "GET"}, sig \in Sigs, body \in Bodies, ev \in Events :
       /\ body = "garbage" => ev = CHOOSE e \in Events : e.id = "evt_1"
       /\ hook' = [hook EXCEPT ![h] =
            IF method # "POST" THEN HookRespond(@, 405, "", "method")
            ELSE [@ EXCEPT !.pc = "h_parse", !.sig = sig, !.body = body,
                           !.ev = IF body = "event" THEN ev ELSE NoEvent]]
  /\ UNCHANGED <<customers, users, quotaVars, hookEnv, stripeEvents, stripeOrphans,
                 portalVars, routeVars, probe>>

\* buffer(req), then parseStripeEvent
ParseEvent(h) ==
  /\ hook[h].pc = "h_parse"
  /\ LET p == parseStripeEvent(hookEnv, hook[h])
     IN  hook' = [hook EXCEPT ![h] =
           IF ~p.ok THEN [HookThrow(@, "parse") EXCEPT !.sig = hook[h].sig,
                                                       !.body = hook[h].body]
           ELSE AfterParse([@ EXCEPT !.insecure = p.insecure, !.sig = <<>>, !.body = ""])]
  /\ UNCHANGED <<customers, users, quotaVars, hookEnv, stripeEvents, stripeOrphans,
                 portalVars, routeVars, probe>>

\* logStripeEvent, then the branch on the event type
LogEvent(h) ==
  /\ hook[h].pc = "h_log"
  /\ \E ok \in BOOLEAN :
       IF ~ok
         THEN /\ hook' = [hook EXCEPT ![h] = HookThrow(@, "log")]
              /\ UNCHANGED stripeEvents
         ELSE /\ stripeEvents' = DocSet(stripeEvents, logDoc(hook[h].ev, NoUid, ""))
              /\ hook' = [hook EXCEPT ![h] =
                   IF @.ev.type \in SubTypes THEN SubBegin(@, @.ev.sub, "event")
                   ELSE IF @.ev.type = CheckoutType THEN CheckoutBegin(@)
                   ELSE HookRespond(@, 200, "", "")]
  /\ UNCHANGED <<customers, users, quotaVars, hookEnv, stripeOrphans, portalVars, routeVars, probe>>

\* variant: the query by stripeCustomerId comes before the metadata
RetrieveCustomer_QueryFirst(h) ==
  /\ hook[h].pc = "h_retrieve"
  /\ \E ok \in BOOLEAN :
       LET cid == SubCustomerId(hook[h].sub)
           got == ok /\ \E c \in customers : c.id = cid
       IN  hook' = [hook EXCEPT ![h] =
             [@ EXCEPT !.got = got, !.metaAt = MetaUid(cid), !.pc = "h_query"]]
  /\ UNCHANGED <<customers, users, quotaVars, hookEnv, stripeEvents, stripeOrphans,
                 portalVars, routeVars, probe>>

\* stripe.customers.retrieve(customerId) inside its try
RetrieveCustomer(h) ==
  /\ hook[h].pc = "h_retrieve"
  /\ \E ok \in BOOLEAN :
       LET cid == SubCustomerId(hook[h].sub)
           got == ok /\ \E c \in customers : c.id = cid
       IN  hook' = [hook EXCEPT ![h] =
             [@ EXCEPT !.got = got, !.metaAt = MetaUid(cid),
                       !.pc = IF got /\ MetaUid(cid) # NoUid THEN "h_byuid" ELSE "h_query"]]
  /\ UNCHANGED <<customers, users, quotaVars, hookEnv, stripeEvents, stripeOrphans,
                 portalVars, routeVars, probe>>

\* users/{uidFromMetadata}.set(payload, { merge: true })
WriteByUid(h) ==
  /\ hook[h].pc = "h_byuid"
  /\ \E ok \in BOOLEAN :
       IF ok
         THEN /\ users' = [users EXCEPT ![hook[h].metaAt] = payload(hook[h].sub)]
              /\ hook' = [hook EXCEPT ![h] =
                   SubReturn(Wrote(@, "users", @.metaAt, "snapshot"))]
         ELSE /\ hook' = [hook EXCEPT ![h] = SubThrow(@)]
              /\ UNCHANGED users
  /\ UNCHANGED <<customers, quotaVars, hookEnv, stripeEvents, stripeOrphans, portalVars, routeVars, probe>>

\* users.where('stripeCustomerId', '==', customerId).limit(1).get()
QueryUsers(h) ==
  /\ hook[h].pc = "h_query"
  /\ \E ok \in BOOLEAN :
       LET owners == Owners(SubCustomerId(hook[h].sub))
       IN  hook' = [hook EXCEPT ![h] =
             IF ~ok THEN SubThrow(@)
             ELSE IF owners # {} THEN [@ EXCEPT !.target = FirstUid(owners), !.pc = "h_byquery"]
             ELSE [@ EXCEPT !.pc = "h_orphan"]]
  /\ UNCHANGED <<customers, users, quotaVars, hookEnv, stripeEvents, stripeOrphans,
                 portalVars, routeVars, probe>>

\* users/{q.docs[0].id}.set(payload, { merge: true })
WriteByQuery(h) ==
  /\ hook[h].pc = "h_byquery"
  /\ \E ok \in BOOLEAN :
       IF ok
         THEN /\ users' = [users EXCEPT ![hook[h].target] = payload(hook[h].sub)]
              /\ hook' = [hook EXCEPT ![h] =
                   SubReturn(Wrote(@, "users", @.target, "snapshot"))]
         ELSE /\ hook' = [hook EXCEPT ![h] = SubThrow(@)]
              /\ UNCHANGED users
  /\ UNCHANGED <<customers, quotaVars, hookEnv, stripeEvents, stripeOrphans, portalVars, routeVars, probe>>

\* stripeOrphans/{subscription.id}.set(...)
WriteOrphan(h) ==
  /\ hook[h].pc = "h_orphan"
  /\ \E ok \in BOOLEAN :
       IF ok
         THEN /\ stripeOrphans' = DocSet(stripeOrphans, orphanDoc(hook[h].sub))
              /\ hook' = [hook EXCEPT ![h] =
                   SubReturn(Wrote(@, "stripeOrphans", @.sub.id, "orphan"))]
         ELSE /\ hook' = [hook EXCEPT ![h] = SubThrow(@)]
              /\ UNCHANGED stripeOrphans
  /\ UNCHANGED <<customers, users, quotaVars, hookEnv, stripeEvents, portalVars, routeVars, probe>>

\* customers.retrieve and customers.update({ metadata: { ...current, uid } })
\* inside a try whose catch is empty
Stamp(h) ==
  /\ hook[h].pc = "h_stamp"
  /\ \E ok \in BOOLEAN :
       LET session == hook[h].ev.session
           cid == SessionCustomerId(session)
       IN  IF ok /\ \E c \in customers : c.id = cid
             THEN /\ customers' = {IF c.id = cid THEN [c EXCEPT !.uid = session.uid] ELSE c :
                                     c \in customers}
                  /\ hook' = [hook EXCEPT ![h] =
                       [Wrote(@, "customers", cid, "stamp") EXCEPT !.pc = "h_map"]]
             ELSE /\ hook' = [hook EXCEPT ![h].pc = "h_map"]
                  /\ UNCHANGED customers
  /\ UNCHANGED <<users, quotaVars, hookEnv, stripeEvents, stripeOrphans, portalVars, routeVars, probe>>

\* users/{uid}.set({ stripeCustomerId: customerId, ... }, { merge: true })
MapUser(h) ==
  /\ hook[h].pc = "h_map"
  /\ \E ok \in BOOLEAN :
       LET session == hook[h].ev.session
       IN  IF ok
             THEN /\ users' = [users EXCEPT ![session.uid].stripeCustomerId =
                                                SessionCustomerId(session)]
                  /\ hook' = [hook EXCEPT ![h] =
                       [Wrote(@, "users", session.uid, "map") EXCEPT
                          !.pc = IF session.subscription # "" THEN "h_subget" ELSE "h_log2"]]
             ELSE /\ hook' = [hook EXCEPT ![h] = HookThrow(@, "checkout")]
                  /\ UNCHANGED users
  /\ UNCHANGED <<customers, quotaVars, hookEnv, stripeEvents, stripeOrphans, portalVars, routeVars, probe>>

\* stripe.subscriptions.retrieve(subscriptionId) inside the try of lines 179-184
RetrieveSub(h) ==
  /\ hook[h].pc = "h_subget"
  /\ \E ok \in BOOLEAN :
       LET known == {s \in StripeSubs : s.id = hook[h].ev.session.subscription}
       IN  hook' = [hook EXCEPT ![h] =
             IF ok /\ known # {} THEN SubBegin(@, CHOOSE s \in known : TRUE, "hydrate")
             ELSE [@ EXCEPT !.pc = "h_log2"]]
  /\ UNCHANGED <<customers, users, quotaVars, hookEnv, stripeEvents, stripeOrphans,
                 portalVars, routeVars, probe>>

\* the second logStripeEvent, with the uid of the result, and the answer
LogMapped(h) ==
  /\ hook[h].pc = "h_log2"
  /\ \E ok \in BOOLEAN :
       LET session == hook[h].ev.session
           uid == IF session.mode = "subscription" THEN session.uid ELSE NoUid
       IN  IF ok
             THEN /\ stripeEvents' =
                       DocSet(stripeEvents, logDoc(hook[h].ev, uid, CheckoutType))
                  /\ hook' = [hook EXCEPT ![h] = HookRespond(@, 200, "", "")]
             ELSE /\ hook' = [hook EXCEPT ![h] = HookThrow(@, "log")]
                  /\ UNCHANGED stripeEvents
  /\ UNCHANGED <<customers, users, quotaVars, hookEnv, stripeOrphans, portalVars, routeVars, probe>>

NextHook ==
  \/ \E h \in Hooks : Arrive(h)
  \/ \E h \in Hooks : ParseEvent(h)
  \/ \E h \in Hooks : LogEvent(h)
  \/ \E h \in Hooks : RetrieveCustomer(h)
  \/ \E h \in Hooks : WriteByUid(h)
  \/ \E h \in Hooks : QueryUsers(h)
  \/ \E h \in Hooks : WriteByQuery(h)
  \/ \E h \in Hooks : WriteOrphan(h)
  \/ \E h \in Hooks : Stamp(h)
  \/ \E h \in Hooks : MapUser(h)
  \/ \E h \in Hooks : RetrieveSub(h)
  \/ \E h \in Hooks : LogMapped(h)

\* customers at the processor and user records when the deliveries start
HookCustomers ==
  { {[id |-> "c1", uid |-> m, email |-> Email1, created |-> 1],
     [id |-> "c2", uid |-> NoUid, email |-> NoEmail, created |-> 2]} : m \in {NoUid, "u1"} }

InitHookWorld ==
  /\ QuietQuota /\ QuietPortal /\ QuietRoutes /\ QuietProbe
  /\ subs = [c \in CustIds |-> <<>>]
  /\ customers \in HookCustomers
  /\ \E own \in {NoCust, "c1"} :
       users = [u \in Uids |-> IF u = "u2" THEN [NoUser EXCEPT !.stripeCustomerId = own]
                               ELSE NoUser]
  /\ stripeEvents = {}
  /\ stripeOrphans = {}
  /\ hook = [h \in Hooks |-> IdleHook]

InitHook == InitHookWorld /\ hookEnv \in HookEnvs

SpecHook == InitHook /\ [][NextHook]_vars

(***************************************************************************)
(* planFromPrice and isUsable applied to inputs one at a time              *)
(***************************************************************************)
SubStatuses ==
  {"active", "trialing", "past_due", "unpaid", "canceled", "incomplete",
   "incomplete_expired", "paused"}

\* current_period_end in seconds (0: absent), and Date.now() in milliseconds
PeriodEnds == {0, EndOfDay0 - 1, EndOfDay0, EndOfDay0 + 1}
HalfSecond == 500
Nows == {DateNow(Day0), DateNow(Day0 + 1), DateNow(Day0 + 1) + HalfSecond,
         DateNow(Day0 + 1) + MsPerSec}

PriceIds == {"", STRIPE_PRICE_BASIC, STRIPE_PRICE_PRO, STRIPE_PRICE_ELITE, "price_x"}
PriceTexts ==
  { <<>>,
    <<"B","a","s","i","c">>,
    <<"P","R","O">>,
    <<"e","l","i","t","e","-","p","r","o">>,
    <<"p","r","o","b","a","s","i","c">>,
    <<"E","l","i","t","e">>,
    <<"G","o","l","d">> }

ProbeInputs ==
  {[NoProbe EXCEPT !.fn = "isUsable", !.sub = Sub(st, cape, cpe, <<>>), !.nowMs = now,
                   !.out = "pending"] :
      st \in SubStatuses, cape \in BOOLEAN, cpe \in PeriodEnds, now \in Nows}
  \cup
  {[NoProbe EXCEPT !.fn = "planFromPrice",
                   !.price = [id |-> id, nickname |-> nick, lookup_key |-> key],
                   !.out = "pending"] :
      id \in PriceIds, nick \in PriceTexts, key \in PriceTexts}

InitPure ==
  /\ QuietQuota /\ QuietHook /\ QuietPortal /\ QuietRoutes
  /\ customers = {}
  /\ subs = [c \in CustIds |-> <<>>]
  /\ users = [u \in Uids |-> NoUser]
  /\ probe \in ProbeInputs

ApplyIsUsable ==
  /\ probe.fn = "isUsable" /\ probe.out = "pending"
  /\ probe' = [probe EXCEPT !.out = IF isUsable(probe.sub, probe.nowMs) THEN "true" ELSE "false"]
  /\ UNCHANGED <<customers, users, quotaVars, hookVars, portalVars, routeVars>>

ApplyPlanFromPrice ==
  /\ probe.fn = "planFromPrice" /\ probe.out = "pending"
  /\ probe' = [probe EXCEPT !.out = planFromPrice(probe.price)]
  /\ UNCHANGED <<customers, users, quotaVars, hookVars, portalVars, routeVars>>

NextPure == ApplyIsUsable \/ ApplyPlanFromPrice

SpecPure == InitPure /\ [][NextPure]_vars

(***************************************************************************)
(* The billing-portal route: POST /api/billing/portal                      *)
(***************************************************************************)
NPortal == 2
Portals == 1..NPortal

PICKABLE_SUB_STATUSES ==
  {"active", "trialing", "past_due", "unpaid", "incomplete", "canceled"}

\* a billing-portal session as stripe.billingPortal.sessions.create was asked for it
PortalSession(customer, flow, subscription) ==
  [customer |-> customer, flow |-> flow, subscription |-> subscription]
NoPortalSession == PortalSession(NoCust, "", 0)

\* a checkout session at the processor, as sessions.search sees it
CheckoutSession(uid, status, customer) == [uid |-> uid, status |-> status, customer |-> customer]

IdlePortal ==
  [pc |-> "idle", method |-> "", token |-> "", intent |-> "", uid |-> NoUid, email |-> NoEmail,
   customerId |-> NoCust, via |-> "", subId |-> 0, flow |-> "", failed |-> "",
   status |-> 0, session |-> NoPortalSession]

\* method, bearer token and body.intent of a request
PortalInputs ==
  {[method |-> "GET", token |-> "t1", intent |-> ""],
   [method |-> "POST", token |-> "", intent |-> ""],
   [method |-> "POST", token |-> "bad", intent |-> ""]}
  \cup {[method |-> "POST", token |-> t, intent |-> i] :
          t \in {"t1", "t2"}, i \in {"", "cancel", "update"}}

\* the decoded token: uid and email
PortalTokenUid(token) == IF token = "t1" THEN "u1" ELSE IF token = "t2" THEN "u2" ELSE NoUid

PortalRespond(rec, status) == [rec EXCEPT !.pc = "done", !.status = status]
\* a call to the processor (or to the token verifier) failed; the latest failing site is kept
PortalFailed(rec, site) == [rec EXCEPT !.failed = site]
\* the outer catch
PortalThrow(rec, site) == PortalRespond(PortalFailed(rec, site), 500)

\* a customer id was resolved by one of (a), (b), (c): the else branch of (d) follows
Resolved(rec, cid, via) == [rec EXCEPT !.customerId = cid, !.via = via, !.pc = "p_retrieve"]

\* what follows (a) when it found nothing
AfterSearchUid(rec) ==
  [rec EXCEPT !.pc = IF rec.email # NoEmail THEN "p_listemail" ELSE "p_sessions"]

\* the id read off session.customer: a string, an expanded object or null
SessionCustomer(cust) == IF cust.kind \in {"string", "object"} THEN cust.id ELSE NoCust

\* stripe.customers.update(customerId, { metadata: { ...meta, uid } })
Stamped(customerSet, cid, uid) ==
  {IF c.id = cid THEN [c EXCEPT !.uid = uid] ELSE c : c \in customerSet}

\* subs.data.find(pickable) || subs.data[0] || null, as a position (0: null)
ChosenSub(list) ==
  LET pick == {i \in 1..Len(list) : list[i].status \in PICKABLE_SUB_STATUSES}
  IN  IF pick # {} THEN CHOOSE i \in pick : \A j \in pick : i <= j
      ELSE IF Len(list) > 0 THEN 1
      ELSE 0

\* the flow_data type chosen from intent and subId ("": base params)
FlowOf(intent, subId) ==
  IF intent = "cancel" /\ subId # 0 THEN "subscription_cancel"
  ELSE IF intent = "update" /\ subId # 0 THEN "subscription_update"
  ELSE ""

\* the catch around sessions.create(params)
SessionFailed(rec) == [PortalFailed(rec, "session") EXCEPT !.pc = "p_fallback"]

\* lines 261-267: method and token checks
PortalArrive(p) ==
  /\ portal[p].pc = "idle"
  /\ \E in \in PortalInputs :
       LET rec == [portal[p] EXCEPT !.method = in.method, !.token = in.token,
                                    !.intent = in.intent]
       IN  portal' = [portal EXCEPT ![p] =
             IF in.method # "POST" THEN PortalRespond(rec, 405)
             ELSE IF in.token = "" THEN PortalRespond(rec, 401)
             ELSE [rec EXCEPT !.pc = "p_verify"]]
  /\ UNCHANGED <<customers, users, quotaVars, hookVars, sessions, routeVars, probe>>

\* line 269: authAdmin.verifyIdToken
PortalVerify(p) ==
  /\ portal[p].pc = "p_verify"
  /\ LET rec == portal[p]
         uid == PortalTokenUid(rec.token)
     IN  portal' = [portal EXCEPT ![p] =
           IF uid # NoUid
             THEN [rec EXCEPT !.uid = uid, !.email = AuthEmail(uid), !.pc = "p_searchuid"]
             ELSE PortalThrow(rec, "verify")]
  /\ UNCHANGED <<customers, users, quotaVars, hookVars, sessions, routeVars, probe>>

\* (a) lines 275-281: customers.search by metadata uid, limit 1
PortalSearchUid(p) ==
  /\ portal[p].pc = "p_searchuid"
  /\ LET rec == portal[p]
         found == {c \in customers : c.uid = rec.uid}
     IN  \/ /\ found # {}
            /\ \E c \in found : portal' = [portal EXCEPT ![p] = Resolved(rec, c.id, "uid")]
         \/ /\ found = {}
            /\ portal' = [portal EXCEPT ![p] = AfterSearchUid(rec)]
         \/ portal' = [portal EXCEPT ![p] = AfterSearchUid(PortalFailed(rec, "searchuid"))]
  /\ UNCHANGED <<customers, users, quotaVars, hookVars, sessions, routeVars, probe>>

\* (b) lines 284-287: customers.list by email, limit 1, outside any try
PortalListEmail(p) ==
  /\ portal[p].pc = "p_listemail"
  /\ LET rec == portal[p]
         found == {c \in customers : c.email = rec.email}
     IN  \/ portal' = [portal EXCEPT ![p] =
                IF found # {} THEN Resolved(rec, Newest(found).id, "email")
                ELSE [rec EXCEPT !.pc = "p_sessions"]]
         \/ portal' = [portal EXCEPT ![p] = PortalThrow(rec, "listemail")]
  /\ UNCHANGED <<customers, users, quotaVars, hookVars, sessions, routeVars, probe>>

\* (c) lines 290-300: checkout.sessions.search by metadata uid and status complete
PortalSearchSessions(p) ==
  /\ portal[p].pc = "p_sessions"
  /\ LET rec == portal[p]
         found == {s \in sessions : s.uid = rec.uid /\ s.status = "complete"}
         none == [rec EXCEPT !.pc = "p_create"]
     IN  \/ /\ found # {}
            /\ \E s \in found :
                 portal' = [portal EXCEPT ![p] =
                   IF SessionCustomer(s.customer) # NoCust
                     THEN Resolved(rec, SessionCustomer(s.customer), "session")
                     ELSE none]
         \/ /\ found = {}
            /\ portal' = [portal EXCEPT ![p] = none]
         \/ portal' = [portal EXCEPT ![p] =
              [PortalFailed(rec, "sessions") EXCEPT !.pc = "p_create"]]
  /\ UNCHANGED <<customers, users, quotaVars, hookVars, sessions, routeVars, probe>>

\* (d) lines 303-308: customers.create with the uid in metadata
PortalCreateCustomer(p) ==
  /\ portal[p].pc = "p_create"
  /\ LET rec == portal[p]
     IN  \/ /\ customers' = customers \cup
                  {[id |-> NewId(p), uid |-> rec.uid, email |-> rec.email,
                    created |-> NextCreated]}
            /\ portal' = [portal EXCEPT ![p] =
                 [rec EXCEPT !.customerId = NewId(p), !.via = "created", !.pc = "p_subs"]]
         \/ /\ portal' = [portal EXCEPT ![p] = PortalThrow(rec, "create")]
            /\ UNCHANGED customers
  /\ UNCHANGED <<users, quotaVars, hookVars, sessions, routeVars, probe>>

\* (d) lines 310-314: customers.retrieve and the test of meta.uid
PortalRetrieve(p) ==
  /\ portal[p].pc = "p_retrieve"
  /\ LET rec == portal[p]
     IN  \/ portal' = [portal EXCEPT ![p] =
                [rec EXCEPT !.pc = IF MetaUid(rec.customerId) = NoUid THEN "p_update"
                                   ELSE "p_subs"]]
         \/ portal' = [portal EXCEPT ![p] = [PortalFailed(rec, "retrieve") EXCEPT !.pc = "p_subs"]]
  /\ UNCHANGED <<customers, users, quotaVars, hookVars, sessions, routeVars, probe>>

\* (d) lines 314-317: customers.update with the caller's uid
PortalUpdate(p) ==
  /\ portal[p].pc = "p_update"
  /\ LET rec == portal[p]
     IN  \/ /\ customers' = Stamped(customers, rec.customerId, rec.uid)
            /\ portal' = [portal EXCEPT ![p] = [rec EXCEPT !.pc = "p_subs"]]
         \/ /\ portal' = [portal EXCEPT ![p] =
                 [PortalFailed(rec, "update") EXCEPT !.pc = "p_subs"]]
            /\ UNCHANGED customers
  /\ UNCHANGED <<users, quotaVars, hookVars, sessions, routeVars, probe>>

\* lines 321-367: subscriptions.list, the intent and the params
PortalListSubs(p) ==
  /\ portal[p].pc = "p_subs"
  /\ LET rec == portal[p]
         chosen == ChosenSub(subs[rec.customerId])
     IN  \/ portal' = [portal EXCEPT ![p] =
                [rec EXCEPT !.subId = chosen, !.flow = FlowOf(rec.intent, chosen),
                            !.pc = "p_session"]]
         \/ portal' = [portal EXCEPT ![p] =
                [PortalFailed(rec, "subs") EXCEPT !.flow = FlowOf(rec.intent, 0),
                                                  !.pc = "p_session"]]
  /\ UNCHANGED <<customers, users, quotaVars, hookVars, sessions, routeVars, probe>>

\* lines 370-372, 378: billingPortal.sessions.create(params)
PortalCreateSession(p) ==
  /\ portal[p].pc = "p_session"
  /\ LET rec == portal[p]
     IN  \/ portal' = [portal EXCEPT ![p] =
                PortalRespond([rec EXCEPT !.session =
                  PortalSession(rec.customerId, rec.flow,
                                IF rec.flow = "" THEN 0 ELSE rec.subId)], 200)]
         \/ portal' = [portal EXCEPT ![p] = SessionFailed(rec)]
  /\ UNCHANGED <<customers, users, quotaVars, hookVars, sessions, routeVars, probe>>

\* lines 373-378: billingPortal.sessions.create(baseParams)
PortalFallback(p) ==
  /\ portal[p].pc = "p_fallback"
  /\ LET rec == portal[p]
     IN  \/ portal' = [portal EXCEPT ![p] =
                PortalRespond([rec EXCEPT !.session = PortalSession(rec.customerId, "", 0)], 200)]
         \/ portal' = [portal EXCEPT ![p] = PortalThrow(rec, "fallback")]
  /\ UNCHANGED <<customers, users, quotaVars, hookVars, sessions, routeVars, probe>>

NextPortal ==
  \/ \E p \in Portals : PortalArrive(p)
  \/ \E p \in Portals : PortalVerify(p)
  \/ \E p \in Portals : PortalSearchUid(p)
  \/ \E p \in Portals : PortalListEmail(p)
  \/ \E p \in Portals : PortalSearchSessions(p)
  \/ \E p \in Portals : PortalCreateCustomer(p)
  \/ \E p \in Portals : PortalRetrieve(p)
  \/ \E p \in Portals : PortalUpdate(p)
  \/ \E p \in Portals : PortalListSubs(p)
  \/ \E p \in Portals : PortalCreateSession(p)
  \/ \E p \in Portals : PortalFallback(p)

\* customers, subscriptions and completed checkouts when the requests start
PortalCustomers ==
  { {[id |-> "c1", uid |-> m, email |-> e, created |-> 1],
     [id |-> "c2", uid |-> NoUid, email |-> NoEmail, created |-> 2]} :
       m \in {NoUid, "u1", "u2"}, e \in {NoEmail, Email1} }

PortalSubLists ==
  { <<>>,
    << Sub("incomplete_expired", FALSE, EndOfDay0, <<PriceBasic>>),
       Sub("active", FALSE, EndOfDay0, <<PriceBasic>>) >>,
    << Sub("paused", FALSE, EndOfDay0, <<PriceBasic>>) >> }

PortalCheckouts ==
  { {},
    {CheckoutSession("u2", "complete", CustRef("string", "c2")),
     CheckoutSession("u1", "open", CustRef("string", "c2"))},
    {CheckoutSession("u1", "complete", CustRef("null", NoCust))} }

InitPortal ==
  /\ QuietQuota /\ QuietHook /\ QuietRoutes /\ QuietProbe
  /\ customers \in PortalCustomers
  /\ \E l \in PortalSubLists : subs = [c \in CustIds |-> IF c = "c1" THEN l ELSE <<>>]
  /\ users = [u \in Uids |-> NoUser]
  /\ sessions \in PortalCheckouts
  /\ portal = [p \in Portals |-> IdlePortal]

SpecPortal == InitPortal /\ [][NextPortal]_vars


(***************************************************************************)
(* The live-status route: GET /api/subscription/status-live                *)
(***************************************************************************)
NLive == 2
Lives == 1..NLive

LiveListLimit == 5
LIVE_SUB_STATUSES ==
  {"active", "trialing", "past_due", "unpaid", "canceled", "incomplete"}

\* the JSON body of a 200 answer ("" : the field is absent)
LiveBody(status, displayStatus, plan, customerId) ==
  [status |-> status, displayStatus |-> displayStatus, plan |-> plan, customerId |-> customerId]
NoLiveBody == LiveBody("", "", "", NoCust)

IdleLive ==
  [pc |-> "idle", method |-> "", token |-> "", uid |-> NoUid, email |-> NoEmail,
   customerId |-> NoCust, failed |-> "", status |-> 0, body |-> NoLiveBody]

\* method and bearer token of a request
LiveInputs ==
  {[method |-> "POST", token |-> "t1"],
   [method |-> "GET", token |-> ""],
   [method |-> "GET", token |-> "bad"],
   [method |-> "GET", token |-> "t1"],
   [method |-> "GET", token |-> "t2"]}

LiveRespond(rec, status, body) == [rec EXCEPT !.pc = "done", !.status = status, !.body = body]
LiveFailed(rec, site) == [rec EXCEPT !.failed = site]
\* the outer catch
LiveThrow(rec, site) == LiveRespond(LiveFailed(rec, site), 500, NoLiveBody)

\* the first n elements of a list
Take(list, n) == SubSeq(list, 1, IF Len(list) < n THEN Len(list) ELSE n)

\* subs.data.find(listed status) || null, as a position (0: null)
LiveSub(list) ==
  LET listed == {i \in 1..Len(list) : list[i].status \in LIVE_SUB_STATUSES}
  IN  IF listed # {} THEN CHOOSE i \in listed : \A j \in listed : i <= j ELSE 0

\* variant: a subscription that is set to cancel keeps its status as label
displayStatus_Plain(sub) == sub.status

\* lines 84-87
displayStatus(sub) ==
  IF sub.status = "canceled" THEN "canceled"
  ELSE IF sub.cancel_at_period_end THEN "canceling"
  ELSE sub.status

\* lines 69-73: the plan label of the subscription's first item
LivePlan(sub) == hookPlan(IF Len(sub.items) > 0 THEN sub.items[1] ELSE NullPrice)

\* lines 50-52: the answer when the lookups end without a customer, else the listing follows
LiveResolved(rec, cid) ==
  IF cid = NoCust THEN LiveRespond(rec, 200, LiveBody("no_customer", "", "", NoCust))
  ELSE [rec EXCEPT !.customerId = cid, !.pc = "l_subs"]

\* what follows lookup 1 when it found nothing
LiveAfterSearchUid(rec) ==
  IF rec.email # NoEmail THEN [rec EXCEPT !.pc = "l_listemail"]
  ELSE [rec EXCEPT !.pc = "l_sessions"]

\* lines 12-17: method and token checks
LiveArrive(l) ==
  /\ statusLive[l].pc = "idle"
  /\ \E in \in LiveInputs :
       LET rec == [statusLive[l] EXCEPT !.method = in.method, !.token = in.token]
       IN  statusLive' = [statusLive EXCEPT ![l] =
             IF in.method # "GET" THEN LiveRespond(rec, 405, NoLiveBody)
             ELSE IF in.token = "" THEN LiveRespond(rec, 401, NoLiveBody)
             ELSE [rec EXCEPT !.pc = "l_verify"]]
  /\ UNCHANGED <<customers, users, quotaVars, hookVars, portalVars, checkoutVars, uploadVars,
                 pageVars, probe>>

\* line 19: authAdmin.verifyIdToken
LiveVerify(l) ==
  /\ statusLive[l].pc = "l_verify"
  /\ LET rec == statusLive[l]
         uid == PortalTokenUid(rec.token)
     IN  statusLive' = [statusLive EXCEPT ![l] =
           IF uid # NoUid
             THEN [rec EXCEPT !.uid = uid, !.email = AuthEmail(uid), !.pc = "l_searchuid"]
             ELSE LiveThrow(rec, "verify")]
  /\ UNCHANGED <<customers, users, quotaVars, hookVars, portalVars, checkoutVars, uploadVars,
                 pageVars, probe>>

\* lines 25-31: customers.search by metadata uid, limit 1
LiveSearchUid(l) ==
  /\ statusLive[l].pc = "l_searchuid"
  /\ LET rec == statusLive[l]
         found == {c \in customers : c.uid = rec.uid}
     IN  \/ /\ found # {}
            /\ \E c \in found : statusLive' = [statusLive EXCEPT ![l] = LiveResolved(rec, c.id)]
         \/ /\ found = {}
            /\ statusLive' = [statusLive EXCEPT ![l] = LiveAfterSearchUid(rec)]
         \/ statusLive' = [statusLive EXCEPT ![l] =
              LiveAfterSearchUid(LiveFailed(rec, "searchuid"))]
  /\ UNCHANGED <<customers, users, quotaVars, hookVars, portalVars, checkoutVars, uploadVars,
                 pageVars, probe>>

\* lines 34-37: customers.list by email, limit 1, outside any try
LiveListEmail(l) ==
  /\ statusLive[l].pc = "l_listemail"
  /\ LET rec == statusLive[l]
         found == {c \in customers : c.email = rec.email}
     IN  \/ statusLive' = [statusLive EXCEPT ![l] =
                IF found # {} THEN LiveResolved(rec, Newest(found).id)
                ELSE [rec EXCEPT !.pc = "l_sessions"]]
         \/ statusLive' = [statusLive EXCEPT ![l] = LiveThrow(rec, "listemail")]
  /\ UNCHANGED <<customers, users, quotaVars, hookVars, portalVars, checkoutVars, uploadVars,
                 pageVars, probe>>

\* lines 40-52: checkout.sessions.search by metadata uid and status complete
LiveSearchSessions(l) ==
  /\ statusLive[l].pc = "l_sessions"
  /\ LET rec == statusLive[l]
         found == {s \in sessions : s.uid = rec.uid /\ s.status = "complete"}
     IN  \/ /\ found # {}
            /\ \E s \in found :
                 statusLive' = [statusLive EXCEPT ![l] = LiveResolved(rec, s.customer.id)]
         \/ /\ found = {}
            /\ statusLive' = [statusLive EXCEPT ![l] = LiveResolved(rec, NoCust)]
         \/ statusLive' = [statusLive EXCEPT ![l] =
              LiveResolved(LiveFailed(rec, "sessions"), NoCust)]
  /\ UNCHANGED <<customers, users, quotaVars, hookVars, portalVars, checkoutVars, uploadVars,
                 pageVars, probe>>

\* lines 55-114: subscriptions.list and the answer
LiveListSubs(l) ==
  /\ statusLive[l].pc = "l_subs"
  /\ LET rec == statusLive[l]
         list == Take(subs[rec.customerId], LiveListLimit)
         i == LiveSub(list)
     IN  \/ statusLive' = [statusLive EXCEPT ![l] =
                IF i = 0
                  THEN LiveRespond(rec, 200, LiveBody("no_subscription", "", "", rec.customerId))
                  ELSE LiveRespond(rec, 200,
                         LiveBody(list[i].status, displayStatus(list[i]), LivePlan(list[i]),
                                  rec.customerId))]
         \/ statusLive' = [statusLive EXCEPT ![l] = LiveThrow(rec, "subs")]
  /\ UNCHANGED <<customers, users, quotaVars, hookVars, portalVars, checkoutVars, uploadVars,
                 pageVars, probe>>

NextLive ==
  \/ \E l \in Lives : LiveArrive(l)
  \/ \E l \in Lives : LiveVerify(l)
  \/ \E l \in Lives : LiveSearchUid(l)
  \/ \E l \in Lives : LiveListEmail(l)
  \/ \E l \in Lives : LiveSearchSessions(l)
  \/ \E l \in Lives : LiveListSubs(l)

\* subscription lists of the customers when the requests start
LiveSubLists ==
  { <<>>,
    << Sub("paused", FALSE, EndOfDay0, <<PriceBasic>>) >>,
    << Sub("incomplete_expired", FALSE, EndOfDay0, <<PriceBasic>>),
       Sub("active", TRUE, EndOfDay0, <<PriceProNickBasic>>) >>,
    << Sub("canceled", TRUE, EndOfDay0, <<PriceBasic>>),
       Sub("active", FALSE, EndOfDay0, <<PriceBasic>>) >>,
    << Sub("trialing", FALSE, EndOfDay0, <<PriceUnknown>>) >>,
    << Sub("past_due", TRUE, EndOfDay0, <<>>) >>,
    << Sub("paused", FALSE, EndOfDay0, <<PriceBasic>>),
       Sub("incomplete_expired", FALSE, EndOfDay0, <<PriceBasic>>),
       Sub("incomplete_expired", FALSE, EndOfDay0, <<PriceBasic>>),
       Sub("incomplete_expired", FALSE, EndOfDay0, <<PriceBasic>>),
       Sub("incomplete_expired", FALSE, EndOfDay0, <<PriceBasic>>),
       Sub("active", FALSE, EndOfDay0, <<PriceBasic>>) >> }

InitLive ==
  /\ QuietQuota /\ QuietHook /\ QuietProbe
  /\ portal = <<>>
  /\ checkout = [pc |-> "off"] /\ upload = [pc |-> "off"] /\ avatars = [bucket |-> FALSE]
  /\ page = [user |-> FALSE]
  /\ customers \in PortalCustomers
  /\ \E l1 \in LiveSubLists, l2 \in {<<>>, <<Sub("unpaid", FALSE, EndOfDay0, <<PriceBasic>>)>>} :
       subs = [c \in CustIds |-> IF c = "c1" THEN l1 ELSE IF c = "c2" THEN l2 ELSE <<>>]
  /\ users = [u \in Uids |-> NoUser]
  /\ sessions \in PortalCheckouts
  /\ statusLive = [l \in Lives |-> IdleLive]

SpecLive == InitLive /\ [][NextLive]_vars


(***************************************************************************)
(* The checkout route: POST /api/checkout                                  *)
(***************************************************************************)
IdleCheckout ==
  [pc |-> "idle", method |-> "", token |-> "", priceId |-> "", uid |-> NoUid,
   failed |-> "", status |-> 0]
OffCheckout == [IdleCheckout EXCEPT !.pc = "off"]

\* method, bearer token and body.priceId of a request
CheckoutInputs ==
  {[method |-> "GET", token |-> "t1", priceId |-> STRIPE_PRICE_BASIC],
   [method |-> "GET", token |-> "", priceId |-> ""],
   [method |-> "POST", token |-> "", priceId |-> STRIPE_PRICE_BASIC],
   [method |-> "POST", token |-> "bad", priceId |-> STRIPE_PRICE_BASIC],
   [method |-> "POST", token |-> "t1", priceId |-> ""],
   [method |-> "POST", token |-> "t1", priceId |-> STRIPE_PRICE_BASIC],
   [method |-> "POST", token |-> "t2", priceId |-> STRIPE_PRICE_PRO]}

CheckoutRespond(rec, status) == [rec EXCEPT !.pc = "done", !.status = status]
\* the catch of the handler
CheckoutThrow(rec, site) == CheckoutRespond([rec EXCEPT !.failed = site], 500)

\* variant: the token is looked at by the verifier only
CheckoutArrive_NoTokenCheck ==
  /\ checkout.pc = "idle"
  /\ \E in \in CheckoutInputs :
       LET rec == [checkout EXCEPT !.method = in.method, !.token = in.token,
                                   !.priceId = in.priceId]
       IN  checkout' = IF in.method # "POST" THEN CheckoutRespond(rec, 405)
                       ELSE [rec EXCEPT !.pc = "k_verify"]
  /\ UNCHANGED <<customers, users, quotaVars, hookVars, portalVars, statusLive, uploadVars, pageVars, probe>>

\* lines 48-52: method and token checks
CheckoutArrive ==
  /\ checkout.pc = "idle"
  /\ \E in \in CheckoutInputs :
       LET rec == [checkout EXCEPT !.method = in.method, !.token = in.token,
                                   !.priceId = in.priceId]
       IN  checkout' = IF in.method # "POST" THEN CheckoutRespond(rec, 405)
                       ELSE IF in.token = "" THEN CheckoutRespond(rec, 401)
                       ELSE [rec EXCEPT !.pc = "k_verify"]
  /\ UNCHANGED <<customers, users, quotaVars, hookVars, portalVars, statusLive, uploadVars, pageVars, probe>>

\* lines 54-56: authAdmin.verifyIdToken and the priceId check
CheckoutVerify ==
  /\ checkout.pc = "k_verify"
  /\ LET uid == PortalTokenUid(checkout.token)
     IN  checkout' = IF uid = NoUid THEN CheckoutThrow(checkout, "verify")
                     ELSE IF checkout.priceId = ""
                       THEN CheckoutRespond([checkout EXCEPT !.uid = uid], 400)
                     ELSE [checkout EXCEPT !.uid = uid, !.pc = "k_create"]
  /\ UNCHANGED <<customers, users, quotaVars, hookVars, portalVars, statusLive, uploadVars, pageVars, probe>>

\* lines 63-71: checkout.sessions.create without customer or metadata
CheckoutCreate ==
  /\ checkout.pc = "k_create"
  /\ \/ /\ sessions' = sessions \cup {CheckoutSession(NoUid, "open", CustRef("null", NoCust))}
        /\ checkout' = CheckoutRespond(checkout, 200)
     \/ /\ checkout' = CheckoutThrow(checkout, "create")
        /\ UNCHANGED sessions
  /\ UNCHANGED <<customers, users, quotaVars, hookVars, portal, statusLive, uploadVars, pageVars, probe>>

NextCheckout == CheckoutArrive \/ CheckoutVerify \/ CheckoutCreate

(***************************************************************************)
(* The avatar route: POST /api/upload-avatar                               *)
(***************************************************************************)
\* the storage bucket, its objects (by owner), and the photoURL kept by the
\* identity provider and by users/{uid}
NoAvatars ==
  [bucket |-> FALSE, objects |-> {}, authPhoto |-> {}, docPhoto |-> {}]

IdleUpload ==
  [pc |-> "idle", method |-> "", token |-> "", uid |-> NoUid, failed |-> "", status |-> 0]
OffUpload == [IdleUpload EXCEPT !.pc = "off"]

UploadInputs ==
  {[method |-> "GET", token |-> "t1"],
   [method |-> "GET", token |-> ""],
   [method |-> "POST", token |-> ""],
   [method |-> "POST", token |-> "bad"],
   [method |-> "POST", token |-> "t1"]}

UploadRespond(rec, status) == [rec EXCEPT !.pc = "done", !.status = status]
\* an early error answer, or the catch of the handler
UploadFail(rec, site, status) == UploadRespond([rec EXCEPT !.failed = site], status)

\* lines 96-100: method and token checks
UploadArrive ==
  /\ upload.pc = "idle"
  /\ \E in \in UploadInputs :
       LET rec == [upload EXCEPT !.method = in.method, !.token = in.token]
       IN  upload' = IF in.method # "POST" THEN UploadRespond(rec, 405)
                     ELSE IF in.token = "" THEN UploadRespond(rec, 401)
                     ELSE [rec EXCEPT !.pc = "a_verify"]
  /\ UNCHANGED <<customers, users, quotaVars, hookVars, portalVars, statusLive, checkout,
                 avatars, pageVars, probe>>

\* lines 102-108: verifyIdToken (401 when rejected) and getSupabaseAdmin
UploadVerify ==
  /\ upload.pc = "a_verify"
  /\ LET uid == PortalTokenUid(upload.token)
     IN  \E envs \in BOOLEAN :
           upload' = IF uid = NoUid THEN UploadFail(upload, "verify", 401)
                     ELSE IF ~envs THEN UploadFail([upload EXCEPT !.uid = uid], "envs", 500)
                     ELSE [upload EXCEPT !.uid = uid, !.pc = "a_bucket"]
  /\ UNCHANGED <<customers, users, quotaVars, hookVars, portalVars, statusLive, checkout,
                 avatars, pageVars, probe>>

\* line 111: ensureBucket creates the bucket when it is missing
UploadEnsureBucket ==
  /\ upload.pc = "a_bucket"
  /\ \/ /\ avatars' = [avatars EXCEPT !.bucket = TRUE]
        /\ upload' = [upload EXCEPT !.pc = "a_parse"]
     \/ /\ upload' = UploadFail(upload, "bucket", 500)
        /\ UNCHANGED avatars
  /\ UNCHANGED <<customers, users, quotaVars, hookVars, portalVars, statusLive, checkout, pageVars, probe>>

\* lines 113-115: parseForm and the file field
UploadParse ==
  /\ upload.pc = "a_parse"
  /\ \/ upload' = [upload EXCEPT !.pc = "a_store"]
     \/ upload' = UploadFail(upload, "nofile", 400)
     \/ upload' = UploadFail(upload, "parse", 500)
  /\ UNCHANGED <<customers, users, quotaVars, hookVars, portalVars, statusLive, checkout,
                 avatars, pageVars, probe>>

\* lines 121-132: storage upload
UploadStore ==
  /\ upload.pc = "a_store"
  /\ \/ /\ avatars' = [avatars EXCEPT !.objects = @ \cup {upload.uid}]
        /\ upload' = [upload EXCEPT !.pc = "a_sign"]
     \/ /\ \E status \in {400, 500} : upload' = UploadFail(upload, "store", status)
        /\ UNCHANGED avatars
  /\ UNCHANGED <<customers, users, quotaVars, hookVars, portalVars, statusLive, checkout, pageVars, probe>>

\* lines 136-143: createSignedUrl
UploadSign ==
  /\ upload.pc = "a_sign"
  /\ \/ upload' = [upload EXCEPT !.pc = "a_auth"]
     \/ upload' = UploadFail(upload, "sign", 500)
  /\ UNCHANGED <<customers, users, quotaVars, hookVars, portalVars, statusLive, checkout,
                 avatars, pageVars, probe>>

\* lines 145-151: authAdmin.updateUser, a failure is logged only
UploadUpdateUser ==
  /\ upload.pc = "a_auth"
  /\ \/ avatars' = [avatars EXCEPT !.authPhoto = @ \cup {upload.uid}]
     \/ UNCHANGED avatars
  /\ upload' = [upload EXCEPT !.pc = "a_doc"]
  /\ UNCHANGED <<customers, users, quotaVars, hookVars, portalVars, statusLive, checkout, pageVars, probe>>

\* lines 153-164: users/{uid}.set, a failure is logged only, then 200
UploadSetDoc ==
  /\ upload.pc = "a_doc"
  /\ \/ avatars' = [avatars EXCEPT !.docPhoto = @ \cup {upload.uid}]
     \/ UNCHANGED avatars
  /\ upload' = UploadRespond(upload, 200)
  /\ UNCHANGED <<customers, users, quotaVars, hookVars, portalVars, statusLive, checkout, pageVars, probe>>

NextUpload ==
  \/ UploadArrive \/ UploadVerify \/ UploadEnsureBucket \/ UploadParse
  \/ UploadStore \/ UploadSign \/ UploadUpdateUser \/ UploadSetDoc

(***************************************************************************)
(* The five token-protected routes, one request on one of them             *)
(***************************************************************************)
Routes == {"compare", "checkout", "portal", "status-live", "upload-avatar"}

OffPortal == [IdlePortal EXCEPT !.pc = "off"]
OffLive == [IdleLive EXCEPT !.pc = "off"]

InitGate ==
  \E route \in Routes :
    /\ QuietHook /\ QuietProbe
    /\ today = Day0
    /\ limits = [basic |-> LimitBasic, pro |-> LimitPro, elite |-> LimitElite]
    /\ quota = [u \in Uids |-> NoDoc]
    /\ used0 = [u \in Uids |-> 0]
    /\ users = [u \in Uids |-> NoUser]
    /\ subs = [c \in CustIds |-> IF c = "c1" THEN SubLists[SubListBasic] ELSE <<>>]
    /\ customers \in IF route = "compare" THEN {{}, {Cust1}}
                     ELSE IF route \in {"portal", "status-live"} THEN PortalCustomers
                     ELSE {{}}
    /\ sessions \in IF route \in {"portal", "status-live"} THEN PortalCheckouts ELSE {{}}
    /\ req = [r \in Reqs |-> IF route = "compare" /\ r = 1 THEN IdleReq ELSE OffReq]
    /\ portal = [p \in Portals |-> IF route = "portal" /\ p = 1 THEN IdlePortal ELSE OffPortal]
    /\ statusLive = [l \in Lives |-> IF route = "status-live" /\ l = 1 THEN IdleLive ELSE OffLive]
    /\ checkout = IF route = "checkout" THEN IdleCheckout ELSE OffCheckout
    /\ upload = IF route = "upload-avatar" THEN IdleUpload ELSE OffUpload
    /\ avatars = NoAvatars
    /\ page = [user |-> FALSE]

NextGate == Next \/ NextPortal \/ NextLive \/ NextCheckout \/ NextUpload

SpecGate == InitGate /\ [][NextGate]_vars


(***************************************************************************)
(* The utility page: pages/utility.js                                      *)
(***************************************************************************)
MaxClicks == 3

\* useState(null) of a number
NullNumber == -1
ACTIVE_STATUSES == {"active", "trialing"}

\* PLAN_LIMITS[rawPlan] ?? 0
PageLimit(rawPlan) ==
  IF rawPlan = "basic" THEN LimitBasic
  ELSE IF rawPlan = "pro" THEN LimitPro
  ELSE IF rawPlan = "elite" THEN LimitElite
  ELSE 0

\* the state of the component, the promises it waits for, and what it has sent
FreshPage ==
  [user |-> FALSE, dailyLimit |-> NullNumber, remaining |-> NullNumber,
   subStatus |-> "", subLoading |-> TRUE, image1 |-> FALSE, image2 |-> FALSE,
   loading |-> FALSE, planPending |-> FALSE, statusPending |-> FALSE,
   answered |-> "", clicks |-> 0, sent |-> 0, results |-> 0, last |-> "none"]

\* activePlan (or plan, tier) of users/{uid}, lower-cased
RawPlans == {"", "basic", "pro", "elite", "gold"}
\* data.status of the live-status answer ("": absent)
LiveAnswers == {"active", "trialing", "past_due", "canceled", "no_subscription", "no_customer", ""}

\* answers of /api/compare that are not ok: status, error_code and the kind of message
CompareErrors ==
  {[status |-> 401, code |-> "BAD_TOKEN", msg |-> "token"],
   [status |-> 403, code |-> "NO_PLAN", msg |-> "no active subscription"],
   [status |-> 403, code |-> "FORBIDDEN", msg |-> "other"],
   [status |-> 429, code |-> "LIMIT_EXCEEDED", msg |-> "daily limit"],
   [status |-> 400, code |-> "MISSING_IMAGES", msg |-> "both images are required"],
   [status |-> 502, code |-> "OPENAI_ERROR", msg |-> "other"]}

hasActiveSubscription == page.subStatus \in ACTIVE_STATUSES

\* lines 127-176: whether showFriendlyError sets the counter to 0
ZeroesCounter(err) ==
  IF err.status = 401 /\ err.msg = "token" THEN FALSE
  ELSE IF err.code = "NO_PLAN" \/ err.msg = "no active subscription" THEN TRUE
  ELSE err.status = 429 \/ err.code = "LIMIT_EXCEEDED" \/ err.msg = "daily limit"


\* line 234: typeof prev === 'number' ? Math.max(prev - 1, 0) : prev
Decrement(prev) ==
  IF prev # NullNumber THEN (IF prev - 1 > 0 THEN prev - 1 ELSE 0) ELSE prev

pageFrame == <<customers, users, quotaVars, hookVars, portalVars, statusLive, checkoutVars,
               uploadVars, probe>>

\* lines 42-46, 83-94: the user is signed in; the plan read and the status fetch start
SignedIn ==
  /\ ~page.user
  /\ page' = [page EXCEPT !.user = TRUE, !.planPending = TRUE, !.statusPending = TRUE,
                          !.subLoading = TRUE]
  /\ UNCHANGED pageFrame

\* lines 48-61: getDoc(users/{uid}) resolves or fails
PlanLoaded ==
  /\ page.planPending
  /\ \/ \E rawPlan \in RawPlans :
          page' = [page EXCEPT !.planPending = FALSE, !.dailyLimit = PageLimit(rawPlan),
                               !.remaining = PageLimit(rawPlan)]
     \/ page' = [page EXCEPT !.planPending = FALSE, !.dailyLimit = NullNumber,
                             !.remaining = NullNumber]
  /\ UNCHANGED pageFrame

\* lines 95-111: the live-status answer arrives, or the fetch fails
StatusLoaded ==
  /\ page.statusPending
  /\ \/ \E status \in LiveAnswers :
          page' = [page EXCEPT !.statusPending = FALSE, !.subLoading = FALSE,
                               !.answered = "ok",
                               !.subStatus = IF status = "" THEN "no_subscription" ELSE status,
                               !.remaining = IF status \in ACTIVE_STATUSES THEN @ ELSE 0]
     \/ page' = [page EXCEPT !.statusPending = FALSE, !.subLoading = FALSE,
                             !.answered = "failed", !.subStatus = "no_subscription"]
  /\ UNCHANGED pageFrame

\* the file inputs
ChooseImage ==
  /\ page.user
  /\ \/ page' = [page EXCEPT !.image1 = ~@]
     \/ page' = [page EXCEPT !.image2 = ~@]
  /\ UNCHANGED pageFrame

\* line 330 and lines 180-211: the button is enabled and handleCompare runs up to the fetch
ClickCompare ==
  /\ page.user /\ page.clicks < MaxClicks
  /\ ~(page.subLoading \/ ~hasActiveSubscription \/ page.loading)
  /\ page' = IF ~hasActiveSubscription THEN [page EXCEPT !.clicks = @ + 1, !.last = "info"]
             ELSE IF ~page.image1 \/ ~page.image2
               THEN [page EXCEPT !.clicks = @ + 1, !.last = "info"]
             ELSE [page EXCEPT !.clicks = @ + 1, !.loading = TRUE, !.sent = @ + 1,
                               !.last = "sent"]
  /\ UNCHANGED pageFrame

\* lines 213-239: the answer of /api/compare
CompareAnswered ==
  /\ page.loading
  /\ \/ page' = [page EXCEPT !.loading = FALSE, !.results = @ + 1, !.last = "ok",
                             !.remaining = Decrement(@)]
     \/ \E err \in CompareErrors :
          page' = [page EXCEPT !.loading = FALSE, !.last = err.code,
                               !.remaining = IF ZeroesCounter(err) THEN 0 ELSE @]
     \/ page' = [page EXCEPT !.loading = FALSE, !.last = "threw"]
  /\ UNCHANGED pageFrame

NextPage ==
  \/ SignedIn \/ PlanLoaded \/ StatusLoaded \/ ChooseImage \/ ClickCompare \/ CompareAnswered

InitPage ==
  /\ QuietQuota /\ QuietHook /\ QuietPortal /\ QuietProbe
  /\ statusLive = <<>>
  /\ checkout = [pc |-> "off"] /\ upload = [pc |-> "off"] /\ avatars = [bucket |-> FALSE]
  /\ customers = {}
  /\ subs = [c \in CustIds |-> <<>>]
  /\ users = [u \in Uids |-> NoUser]
  /\ page = FreshPage

SpecPage == InitPage /\ [][NextPage]_vars


(***************************************************************************)
(* A user is denied, buys a plan through /api/checkout, and compares again *)
(***************************************************************************)
\* the processor has completed the checkout session: it created a customer of its
\* own for the buyer's email and the subscription on it
Purchased == \E c \in customers : c.id = "c1"

\* the buyer pays on the processor's page for the session of lines 63-69, which
\* names no customer and carries no metadata
Purchase ==
  /\ ~Purchased
  /\ checkout.pc = "done" /\ checkout.status = 200 /\ checkout.uid = "u1"
  /\ sessions' = {CheckoutSession(NoUid, "complete", CustRef("string", "c1"))}
  /\ customers' = customers \cup
       {[id |-> "c1", uid |-> NoUid, email |-> AuthEmail("u1"), created |-> NextCreated]}
  /\ subs' = [subs EXCEPT !["c1"] = <<Sub("active", FALSE, EndOfDay0 + SecPerDay, <<PriceBasic>>)>>]
  /\ UNCHANGED <<today, limits, users, quota, req, used0, hookVars, portal, routeVars, probe>>

\* the checkout.session.completed event the processor sends for the purchase
PurchaseEvent == CHOOSE e \in Events : e.id = "evt_6"

\* the processor delivers the event once, signed with the endpoint's secret
Deliver(h) ==
  /\ Purchased
  /\ \A k \in Hooks : hook[k].pc = "idle"
  /\ hook' = [hook EXCEPT ![h] =
       [@ EXCEPT !.pc = "h_parse", !.sig = <<"a">>, !.body = "event", !.ev = PurchaseEvent]]
  /\ UNCHANGED <<customers, users, quotaVars, hookEnv, stripeEvents, stripeOrphans,
                 portalVars, routeVars, probe>>

InitBuy ==
  /\ QuietProbe
  /\ today = Day0
  /\ limits = [basic |-> LimitBasic, pro |-> LimitPro, elite |-> LimitElite]
  /\ quota = [u \in Uids |-> NoDoc]
  /\ used0 = [u \in Uids |-> 0]
  /\ req = [r \in Reqs |-> IF r <= NReq THEN IdleReq ELSE OffReq]
  /\ customers = {}
  /\ subs = [c \in CustIds |-> <<>>]
  /\ users = [u \in Uids |-> NoUser]
  /\ hookEnv = HookEnv("production", "", <<"a">>)
  /\ stripeEvents = {}
  /\ stripeOrphans = {}
  /\ hook = [h \in Hooks |-> IdleHook]
  /\ sessions = {}
  /\ portal = <<>>
  /\ statusLive = <<>>
  /\ checkout = IdleCheckout
  /\ upload = [pc |-> "off"] /\ avatars = [bucket |-> FALSE]
  /\ page = [user |-> FALSE]

\* the events of the purchase carry no uid, so of the webhook's steps those of the
\* uid branches (Stamp, MapUser, WriteByUid) do not occur
NextBuy ==
  \/ Next
  \/ NextCheckout
  \/ Purchase
  \/ \E h \in Hooks : Deliver(h)
  \/ \E h \in Hooks : ParseEvent(h)
  \/ \E h \in Hooks : LogEvent(h)
  \/ \E h \in Hooks : RetrieveSub(h)
  \/ \E h \in Hooks : RetrieveCustomer(h)
  \/ \E h \in Hooks : QueryUsers(h)
  \/ \E h \in Hooks : WriteByQuery(h)
  \/ \E h \in Hooks : WriteOrphan(h)
  \/ \E h \in Hooks : LogMapped(h)

SpecBuy == InitBuy /\ [][NextBuy]_vars

(***************************************************************************)
(* The user's plan changes at the processor while requests are served      *)
(***************************************************************************)
PricePro == [id |-> STRIPE_PRICE_PRO, nickname |-> <<>>, lookup_key |-> <<>>]

\* a price of each tier
PlanPrice(p) ==
  IF p = "basic" THEN PriceBasic ELSE IF p = "pro" THEN PricePro ELSE PriceEliteNick

\* the one subscription of the customer, on tier p
PlanSub(p) == << Sub("active", FALSE, EndOfDay0, <<PlanPrice(p)>>) >>

\* the processor moves the subscription of customer c1 to another tier; the next
\* stripe.subscriptions.list of getPlanFromStripeCustomer returns the new price
ChangePlan ==
  /\ \E p \in Plans :
       /\ subs["c1"] # PlanSub(p)
       /\ subs' = [subs EXCEPT !["c1"] = PlanSub(p)]
  /\ UNCHANGED <<today, limits, customers, users, quota, req, used0, otherVars>>

\* user u1 with a customer on some tier, and the document an earlier call made
\* under that tier can have left
InitPlan ==
  /\ QuietHook /\ QuietPortal /\ QuietRoutes /\ QuietProbe
  /\ today = Day0
  /\ limits = [basic |-> LimitBasic, pro |-> LimitPro, elite |-> LimitElite]
  /\ customers = {Cust1}
  /\ users = [u \in Uids |-> NoUser]
  /\ \E p \in Plans :
       /\ subs = [c \in CustIds |-> IF c = "c1" THEN PlanSub(p) ELSE <<>>]
       /\ \E d \in InitDocs(limits) :
            /\ d.exists => d.plan = p /\ d.count <= d.max
            /\ quota = [u \in Uids |-> IF u = "u1" THEN d ELSE NoDoc]
  /\ used0 = [u \in Uids |-> IF quota[u].exists /\ quota[u].day = Day0 THEN quota[u].count ELSE 0]
  /\ req = [r \in Reqs |-> IF r <= NReq THEN IdleReq ELSE OffReq]

NextPlan == Next \/ ChangePlan

SpecPlan == InitPlan /\ [][NextPlan]_vars


(***************************************************************************)
(* Properties                                                              *)
(***************************************************************************)
Min(a, b) == IF a <= b THEN a ELSE b

QuotaPcs ==
  {"q_userget", "q_searchuid", "q_getuser", "q_searchemail", "q_listemail",
   "q_create", "q_cache", "q_subs", "q_txget", "q_txcommit"}

\* the count stored for day d, read off the document
StoredFor(u, d) == IF quota[u].exists /\ quota[u].day = d THEN quota[u].count ELSE 0

\* requests that evaluated a plan for u, and the limits they got
Evaluated(u) == {r \in Reqs : req[r].uid = u /\ req[r].max > 0}
\* requests whose transaction callback has run
Entered(u) == {r \in Reqs : req[r].uid = u /\ (req[r].attempts > 0 \/ req[r].commits > 0)}
Succeeded(u) == {r \in Entered(u) : req[r].qres = "ok"}
\* no call is inside checkAndConsumeQuota
Settled == \A r \in Reqs : req[r].pc \notin QuotaPcs \cup {"verify"}

\* request r takes a step from position pc
StepFrom(r, pc) == req[r].pc = pc /\ req'[r] # req[r]

\* C1: on one day and under one unchanged plan with daily max m (every call
\* that evaluated the plan got m, and the day's earlier use was within m), the
\* count stored for the day never exceeds m, whatever the interleaving.
C1_CountNeverExceedsMax ==
  \A u \in Uids : \A m \in 1..LimitElite :
    (/\ today = Day0
     /\ Evaluated(u) # {}
     /\ \A r \in Evaluated(u) : req[r].max = m
     /\ used0[u] <= m)
    => StoredFor(u, Day0) <= m

\* C1 witness: two calls have both consumed and the counter stands at the max
C1_Witness ==
  \E u \in Uids :
    /\ today = Day0
    /\ \A r \in 1..NReq : req[r].uid = u /\ req[r].commits = 1 /\ req[r].max = LimitPro
    /\ NReq >= 2
    /\ used0[u] = LimitPro - 2
    /\ StoredFor(u, Day0) = LimitPro

\* C2: when N calls for one user have run their transactions on one day
\* (none rejected by the database with a vendor error)
\* against a counter at c under an unchanged max m, exactly min(N, m - c)
\* succeeded, the counter stands at c plus the number of successes, each
\* success wrote exactly once, and every other call failed LIMIT_EXCEEDED.
C2_ExactlyOnce ==
  \A u \in Uids : \A m \in 1..LimitElite :
    /\ \A r \in Reqs : req[r].commits <= 1
    /\ \A r \in Reqs : req[r].commits = 1 <=> req[r].qres = "ok"
    /\ (/\ today = Day0
        /\ Settled
        /\ Entered(u) # {}
        /\ \A r \in Entered(u) : req[r].max = m /\ req[r].qres # "ERROR"
        /\ used0[u] <= m)
       => LET N == Cardinality(Entered(u))
              S == Cardinality(Succeeded(u))
              c == used0[u]
          IN  /\ S = Min(N, m - c)
              /\ StoredFor(u, Day0) = c + S
              /\ \A r \in Entered(u) \ Succeeded(u) :
                    req[r].qres = "LIMIT_EXCEEDED" /\ req[r].commits = 0

\* C2 witness: one slot was left for two calls; one took it, the other was
\* rerun by the database and then refused
C2_Witness ==
  \E u \in Uids : \E r1, r2 \in Reqs :
    /\ today = Day0 /\ Settled
    /\ Entered(u) = {r1, r2} /\ r1 # r2
    /\ req[r1].qres = "ok" /\ req[r1].commits = 1
    /\ req[r2].qres = "LIMIT_EXCEEDED" /\ req[r2].attempts = 2
    /\ req[r1].max = req[r2].max
    /\ StoredFor(u, Day0) = used0[u] + 1

\* C3: a transaction that finds the stored counter of its day at or above
\* the max fails with LIMIT_EXCEEDED and leaves the quota document as it
\* was; a call that failed so never wrote.
C3_LimitExceeded ==
  [][\A r \in Reqs :
       /\ (/\ StepFrom(r, "q_txget") /\ req'[r].qres # "ERROR"
           /\ quota[req[r].uid].exists
           /\ quota[req[r].uid].day = req[r].day
           /\ quota[req[r].uid].count >= req[r].max)
          => (/\ req'[r].qres = "LIMIT_EXCEEDED"
              /\ req'[r].pc = "done"
              /\ quota' = quota)
       /\ req'[r].qres = "LIMIT_EXCEEDED" => req'[r].commits = 0
       /\ (req[r].qres # "LIMIT_EXCEEDED" /\ req'[r].qres = "LIMIT_EXCEEDED")
          => (/\ quota' = quota
              /\ quota[req[r].uid].exists
              /\ quota[req[r].uid].day = req[r].day
              /\ quota[req[r].uid].count >= req[r].max)]_vars

\* C3 witness: refused against a counter above the max, document untouched
C3_Witness ==
  \E r \in Reqs :
    /\ req[r].qres = "LIMIT_EXCEEDED"
    /\ req[r].uid \in Uids
    /\ quota[req[r].uid].exists
    /\ quota[req[r].uid].count > req[r].max
    /\ quota[req[r].uid].ver = 0

\* what the processor holds for a customer at the clock's time, spelled out:
\* the subscriptions in status active or trialing that are not cancelled
\* with the period over, and the tier and limit of the first of them
LiveUsable(cust) ==
  {i \in 1..Len(subs[cust]) :
     /\ subs[cust][i].status \in {"active", "trialing"}
     /\ subs[cust][i].cancel_at_period_end
          => subs[cust][i].current_period_end * MsPerSec > DateNow(today)}
LiveFirst(cust) == CHOOSE i \in LiveUsable(cust) : \A j \in LiveUsable(cust) : i <= j
LiveTier(cust) ==
  IF LiveUsable(cust) = {} THEN NoPlan
  ELSE IF subs[cust][LiveFirst(cust)].items = <<>> THEN NoPlan
  ELSE planFromPrice(subs[cust][LiveFirst(cust)].items[1])
LiveLimit(cust) == IF LiveTier(cust) \in Plans THEN limits[LiveTier(cust)] ELSE 0

\* C4: once the customer is resolved and the processor answers, the call
\* fails NO_PLAN exactly when there is no usable subscription, its price
\* maps to no tier, or the tier's limit is <= 0; a verified token without
\* uid fails NO_PLAN too; and a call that fails NO_PLAN has not run the
\* transaction, and its failing step leaves the quota document untouched.
C4_NoPlan ==
  [][\A r \in Reqs :
       /\ (StepFrom(r, "q_subs") /\ req'[r].qres # "ERROR")
          => (req'[r].qres = "NO_PLAN"
                <=> (\/ LiveUsable(req[r].cust) = {}
                     \/ LiveTier(req[r].cust) = NoPlan
                     \/ LiveLimit(req[r].cust) <= 0))
       /\ (StepFrom(r, "verify") /\ req'[r].verified /\ req'[r].uid = NoUid)
          => req'[r].qres = "NO_PLAN"
       /\ (req[r].qres # "NO_PLAN" /\ req'[r].qres = "NO_PLAN")
          => (/\ quota' = quota
              /\ req'[r].attempts = 0
              /\ req'[r].commits = 0
              /\ req'[r].pc = "done")]_vars

\* C4 witness: a call refused NO_PLAN for a tier whose limit is 0, with the
\* day's quota document as it was
C4_Witness ==
  \E r \in Reqs :
    /\ req[r].qres = "NO_PLAN"
    /\ req[r].plan = "basic"
    /\ limits["basic"] = 0
    /\ req[r].attempts = 0
    /\ quota[req[r].uid].exists /\ quota[req[r].uid].ver = 0

\* C5: a transaction that finds no document, or one stored under another
\* day key than the call's, takes the used count as 0 whatever is stored and
\* goes on to write; its write sets day to the call's key and count to 1.
C5_DayReset ==
  [][\A r \in Reqs :
       LET doc == quota[req[r].uid]
           otherDay == ~doc.exists \/ doc.day # req[r].day
       IN  /\ (StepFrom(r, "q_txget") /\ otherDay /\ req'[r].qres # "ERROR")
              => (req'[r].used = 0 /\ req'[r].pc = "q_txcommit")
           /\ (StepFrom(r, "q_txcommit") /\ otherDay /\ req'[r].commits = req[r].commits + 1)
              => (/\ quota'[req[r].uid].exists
                  /\ quota'[req[r].uid].day = req[r].day
                  /\ quota'[req[r].uid].count = 1)]_vars

\* C5 witness: the document of the day before held a count of 2; the one
\* write since then, by the new day's first call, left count 1 under the new key
C5_Witness ==
  \E u \in Uids : \E r \in Reqs :
    /\ used0[u] = 2
    /\ today = Day0 + 1
    /\ quota[u].exists /\ quota[u].day = today /\ quota[u].count = 1 /\ quota[u].ver = 1
    /\ req[r].uid = u /\ req[r].commits = 1

Rank(strategy) ==
  CASE strategy = "cached" -> 1
    [] strategy = "uid" -> 2
    [] strategy = "email" -> 3
    [] strategy = "list" -> 4
    [] strategy = "create" -> 5

Strategies(t) == [i \in 1..Len(t) |-> t[i].s]

\* C7: the strategies run in the order cached id, metadata search, email
\* search, email list, create; each runs only after every earlier one that
\* ran yielded no customer, the searches only after the cached id was
\* missing, and a customer is created only after the cached id, the metadata
\* search and whatever email lookup ran all yielded none.
C7_StrategyOrder ==
  \A r \in Reqs :
    LET t == req[r].trace
    IN  /\ \A i \in 1..Len(t) : \A j \in 1..(i - 1) :
              Rank(t[j].s) < Rank(t[i].s) /\ ~t[j].found
        /\ req[r].pc = "q_userget" => t = <<>>
        /\ req[r].pc = "q_searchuid" => Strategies(t) = <<"cached">> /\ ~t[1].found
        /\ req[r].pc \in {"q_getuser", "q_searchemail"}
             => Strategies(t) = <<"cached", "uid">> /\ ~t[2].found
        /\ req[r].pc = "q_listemail"
             => Strategies(t) = <<"cached", "uid", "email">> /\ ~t[3].found
        /\ req[r].pc = "q_create"
             => /\ Strategies(t) \in {<<"cached", "uid">>, <<"cached", "uid", "email">>,
                                      <<"cached", "uid", "email", "list">>}
                /\ ~t[Len(t)].found
        /\ (\E c \in customers : c.id = NewId(r))
             => req[r].pc \notin {"idle", "verify", "q_userget", "q_searchuid", "q_getuser",
                                  "q_searchemail", "q_listemail", "q_create"}
        /\ (req[r].pc = "q_cache" /\ req[r].cust = NewId(r))
             => t[Len(t)] = [s |-> "create", found |-> TRUE]

\* C8: the gate is a function of the processor's state and never of the
\* snapshot cached on the user record: for every value of the snapshot, the
\* step that evaluates the plan ends NO_PLAN or with the tier and limit the
\* processor holds for the resolved customer, the resolved customer is the
\* cached customer id when there is one, the counter update is the stored
\* count plus one, and no step of the call writes the snapshot.
C8_LiveGate ==
  [][\A r \in Reqs :
       LET u == req[r].uid
       IN  /\ (StepFrom(r, "q_subs") /\ req'[r].qres # "ERROR")
              => IF LiveTier(req[r].cust) = NoPlan \/ LiveLimit(req[r].cust) <= 0
                   THEN req'[r].qres = "NO_PLAN" /\ req'[r].status = 403
                   ELSE /\ req'[r].qres = "none"
                        /\ req'[r].plan = LiveTier(req[r].cust)
                        /\ req'[r].max = LiveLimit(req[r].cust)
           /\ (StepFrom(r, "q_userget") /\ users[u].stripeCustomerId # NoCust
                 /\ req'[r].qres # "ERROR")
              => (req'[r].cust = users[u].stripeCustomerId /\ req'[r].pc = "q_subs")
           /\ (StepFrom(r, "q_txcommit") /\ req'[r].commits > req[r].commits)
              => quota'[u].count = 1 + (IF quota[u].exists /\ quota[u].day = req[r].day
                                          THEN quota[u].count ELSE 0)
           /\ \A v \in Uids : users'[v].snapshot = users[v].snapshot]_vars

\* C8 witness: the cached snapshot says elite and active, the processor holds
\* no usable subscription, and the call was refused NO_PLAN
C8_Witness ==
  \E r \in Reqs :
    /\ req[r].uid \in Uids
    /\ users[req[r].uid].snapshot.activePlan = "elite"
    /\ users[req[r].uid].snapshot.subscriptionStatus = "active"
    /\ users[req[r].uid].stripeCustomerId # NoCust
    /\ LiveUsable(users[req[r].uid].stripeCustomerId) = {}
    /\ req[r].qres = "NO_PLAN" /\ req[r].status = 403

\* C9: a failed quota step ends the request at once with the translated
\* response: NO_PLAN -> 403 NO_PLAN, LIMIT_EXCEEDED -> 429 LIMIT_EXCEEDED,
\* any other exception -> 403 FORBIDDEN; the vision model is not called.
C9_QuotaErrors ==
  \A r \in Reqs :
    req[r].qres \notin {"none", "ok"}
      => /\ req[r].pc = "done"
         /\ req[r].openai = 0
         /\ req[r].qres = "NO_PLAN" => req[r].status = 403 /\ req[r].code = "NO_PLAN"
         /\ req[r].qres = "LIMIT_EXCEEDED"
              => req[r].status = 429 /\ req[r].code = "LIMIT_EXCEEDED"
         /\ req[r].qres \notin {"NO_PLAN", "LIMIT_EXCEEDED"}
              => req[r].status = 403 /\ req[r].code = "FORBIDDEN"

\* C9 witness: one request was refused 429 and another hit a vendor error
C9_Witness ==
  \E r1, r2 \in Reqs :
    /\ req[r1].qres = "LIMIT_EXCEEDED" /\ req[r1].status = 429
    /\ req[r2].qres = "ERROR" /\ req[r2].status = 403 /\ req[r2].code = "FORBIDDEN"

\* C10: a request answered 401 has not entered the quota step, written the
\* counter or called the vision model; only requests whose token verified
\* are in or past the quota step; only requests whose quota step succeeded are
\* at or past the parse and vision-model steps; and every write of the
\* counter is the one commit of such a request.
C10_Order ==
  /\ \A r \in Reqs :
       /\ req[r].status = 401
            => /\ req[r].qres = "none" /\ req[r].attempts = 0
               /\ req[r].commits = 0 /\ req[r].openai = 0
               /\ req[r].uid = NoUid
       /\ (req[r].pc \in QuotaPcs \/ req[r].qres # "none" \/ req[r].commits > 0)
            => req[r].verified
       /\ (req[r].pc \in {"parse", "openai"} \/ req[r].openai > 0 \/ req[r].status = 200)
            => req[r].qres = "ok" /\ req[r].commits = 1 /\ req[r].verified
               /\ req[r].attempts = 0
  /\ \A u \in Uids :
       quota[u].ver = Cardinality({r \in Reqs : req[r].uid = u /\ req[r].commits > 0})

\* C10 witness: one request was turned away 401 BAD_TOKEN, another went
\* through the quota step to the vision model
C10_Witness ==
  \E r1, r2 \in Reqs :
    /\ req[r1].status = 401 /\ req[r1].code = "BAD_TOKEN"
    /\ req[r2].status = 200 /\ req[r2].openai = 1 /\ req[r2].commits = 1
    /\ quota[req[r2].uid].ver = 1

\* C11: a request past the quota step never touches the counter again and
\* never re-enters the quota step: its parse and vision-model steps leave the
\* quota document as it is, whether they fail (400, 500, 502) or succeed, the
\* request has committed exactly once, and every write any request makes
\* stores, for the day it writes, the count stored for that day plus one.
C11_NoRefund ==
  [][/\ \A r \in Reqs :
          (StepFrom(r, "parse") \/ StepFrom(r, "openai"))
            => /\ quota' = quota
               /\ req[r].commits = 1 /\ req'[r].commits = 1
               /\ req'[r].pc \in {"openai", "done"}
               /\ req'[r].pc = "done" => req'[r].status \in {200, 400, 500, 502}
     /\ \A u \in Uids :
          quota'[u] # quota[u]
            => quota'[u].count = StoredFor(u, quota'[u].day) + 1]_vars

\* C11 witness: one request failed its upload and another failed at the
\* vision model after both consumed; the day's count stands two higher
C11_Witness ==
  \E r1, r2 \in Reqs :
    /\ req[r1].status = 400 /\ req[r1].code = "BAD_IMAGE" /\ req[r1].commits = 1
    /\ req[r2].status = 502 /\ req[r2].code = "OPENAI_ERROR" /\ req[r2].commits = 1
    /\ req[r1].uid = req[r2].uid
    /\ today = Day0
    /\ StoredFor(req[r1].uid, Day0) = used0[req[r1].uid] + 2

\* the requests of user u that called the vision model under day key d
Reached(u, d) ==
  {r \in Reqs : req[r].uid = u /\ req[r].openai > 0 /\ req[r].day = d}

\* C12: for every user and day key, the requests that reached the
\* vision-model call under that key are at most the daily max, when all of
\* them were given the same max.
C12_VisionBound ==
  \A u \in Uids : \A d \in Day0..MaxDay : \A m \in 1..LimitElite :
    (\A r \in Reached(u, d) : req[r].max = m)
      => Cardinality(Reached(u, d)) <= m

\* C13: isUsable answers true exactly when the status is active or trialing
\* and, with cancel_at_period_end set, current_period_end (seconds) lies after
\* the current time; every other status is refused whatever its dates.
C13_Usable ==
  (probe.fn = "isUsable" /\ probe.out # "pending")
    => LET sub == probe.sub
           nowSec == probe.nowMs \div MsPerSec
           future == sub.current_period_end > nowSec
       IN  /\ probe.out = "true"
                <=> /\ sub.status \in {"active", "trialing"}
                    /\ sub.cancel_at_period_end => future
           /\ sub.status \in {"past_due", "unpaid", "canceled", "incomplete"}
                => probe.out = "false"

\* C13 witness: a trialing subscription set to cancel whose period ends one
\* second after now was found usable
C13_Witness ==
  /\ probe.fn = "isUsable" /\ probe.out = "true"
  /\ probe.sub.status = "trialing" /\ probe.sub.cancel_at_period_end
  /\ probe.sub.current_period_end = EndOfDay0 + 1
  /\ probe.nowMs = DateNow(Day0 + 1) + HalfSecond

\* the tier a text names: basic before pro before elite, in lower case
Named(price) ==
  LET has(word) == \/ includes(toLowerCase(price.lookup_key), word)
                   \/ includes(toLowerCase(price.nickname), word)
  IN  IF has(STR_basic) THEN "basic"
      ELSE IF has(STR_pro) THEN "pro"
      ELSE IF has(STR_elite) THEN "elite"
      ELSE NoPlan

\* C14: planFromPrice returns basic, pro, elite or null; a configured price
\* id gives its tier whatever the nickname and lookup key say; any other price
\* gets the tier its lower-cased lookup key or nickname names, basic before
\* pro before elite, and null when they name none.
C14_PlanFromPrice ==
  (probe.fn = "planFromPrice" /\ probe.out # "pending")
    => LET price == probe.price
       IN  /\ probe.out \in Plans \cup {NoPlan}
           /\ price.id = STRIPE_PRICE_BASIC => probe.out = "basic"
           /\ price.id = STRIPE_PRICE_PRO => probe.out = "pro"
           /\ price.id = STRIPE_PRICE_ELITE => probe.out = "elite"
           /\ price.id \notin {STRIPE_PRICE_BASIC, STRIPE_PRICE_PRO, STRIPE_PRICE_ELITE}
                => probe.out = Named(price)

\* C14 witness: the pro price id won over a nickname saying Basic
C14_Witness ==
  /\ probe.fn = "planFromPrice" /\ probe.out = "pro"
  /\ probe.price.id = STRIPE_PRICE_PRO
  /\ probe.price.nickname = <<"B","a","s","i","c">>

\* a step of delivery h
HookStep(h) == hook'[h] # hook[h]
\* delivery h writes a document or a customer in this step
HookWrites(h) == Len(hook'[h].writes) > Len(hook[h].writes)
LastWrite(h) == hook'[h].writes[Len(hook'[h].writes)]
HasWrite(rec, coll, key, kind) ==
  \E i \in 1..Len(rec.writes) : rec.writes[i] = [coll |-> coll, key |-> key, kind |-> kind]
Logged(ev) == \E d \in stripeEvents : d.key = ev.id /\ d.type = ev.type

\* the write of one subscription event, given the uid the event is to be
\* filed under by metadata (or none)
SnapshotWrite(h, byMeta) ==
  LET sub == hook[h].sub
      w == LastWrite(h)
      uid == IF byMeta # NoUid THEN byMeta ELSE hook[h].target
  IN  /\ hook[h].writes = <<>>
      /\ IF uid # NoUid
            THEN /\ w = [coll |-> "users", key |-> uid, kind |-> "snapshot"]
                 /\ users' = [users EXCEPT ![uid] = payload(sub)]
                 /\ stripeOrphans' = stripeOrphans
            ELSE /\ w = [coll |-> "stripeOrphans", key |-> sub.id, kind |-> "orphan"]
                 /\ users' = users
                 /\ \E d \in stripeOrphans' : d.key = sub.id

\* the user the query by stripeCustomerId hands to a subscription event
QueryTarget(h) ==
  (hook[h].pc = "h_query" /\ HookStep(h))
    => /\ hook'[h].pc = "h_byquery"
            => hook'[h].target \in Owners(SubCustomerId(hook[h].sub))
       /\ hook'[h].pc = "h_orphan" => Owners(SubCustomerId(hook[h].sub)) = {}

\* a subscription event answered 200 without a note has written once
WroteOnce(h) ==
  (hook[h].ev.type \in SubTypes /\ hook[h].pc # "done" /\ hook'[h].pc = "done"
     /\ hook'[h].status = 200 /\ hook'[h].note = "")
    => Len(hook'[h].writes) = 1

\* C15 as stated: a subscription event writes its snapshot to exactly one
\* user record, that of the uid in the customer's metadata if the customer
\* carries one, otherwise that of the user whose stripeCustomerId is the
\* event's customer; with neither, no user record changes and an orphan keyed
\* by the subscription id is written.
C15_ByMetadata ==
  [][\A h \in Hooks :
       /\ (hook[h].ctx = "event" /\ HookWrites(h)) => SnapshotWrite(h, hook[h].metaAt)
       /\ QueryTarget(h)
       /\ WroteOnce(h)]_vars

\* C15 amended: the uid of the metadata counts when customers.retrieve
\* returned the customer; when the retrieve fails the event is filed by
\* stripeCustomerId or as an orphan even though the metadata carries a uid.
C15_ByRetrievedMetadata ==
  [][\A h \in Hooks :
       /\ (hook[h].ctx = "event" /\ HookWrites(h))
            => SnapshotWrite(h, IF hook[h].got THEN hook[h].metaAt ELSE NoUid)
       /\ QueryTarget(h)
       /\ WroteOnce(h)]_vars

\* C15 witness: the customer's metadata names u1 while u2 holds the customer
\* id; the created event was filed under u1 alone
C15_Witness ==
  \E h \in Hooks :
    /\ hook[h].pc = "done" /\ hook[h].status = 200 /\ hook[h].ev.id = "evt_1"
    /\ hook[h].writes = <<[coll |-> "users", key |-> "u1", kind |-> "snapshot"]>>
    /\ MetaUid("c1") = "u1"
    /\ users["u2"].stripeCustomerId = "c1" /\ users["u2"].snapshot.subscriptionStatus = "none"
    /\ users["u1"] = [stripeCustomerId |-> "c1",
                      snapshot |-> [activePlan |-> "basic", subscriptionStatus |-> "active"]]
    /\ stripeOrphans = {}

\* the route runs in production with verification on
Production == hookEnv.NODE_ENV = "production" /\ hookEnv.DEV_WEBHOOK_NO_VERIFY # "true"
\* the comma-separated values of STRIPE_WEBHOOK_SECRET: the stretches of the
\* text that hold no comma, start and end with neither space nor comma, and
\* are separated from the nearest comma or end of text by spaces only
Configured ==
  LET raw == hookEnv.STRIPE_WEBHOOK_SECRET
      n == Len(raw)
      Edge(i) == i < 1 \/ i > n \/ raw[i] = ","
      Blank(i, j) == \A k \in i..j : raw[k] = " "
      Value(a, b) ==
        /\ a <= b
        /\ raw[a] \notin {" ", ","} /\ raw[b] \notin {" ", ","}
        /\ \A k \in a..b : raw[k] # ","
        /\ \E i \in 0..(a - 1) : Edge(i) /\ Blank(i + 1, a - 1)
        /\ \E j \in (b + 1)..(n + 1) : Edge(j) /\ Blank(b + 1, j - 1)
  IN  {SubSeq(raw, p[1], p[2]) : p \in {q \in (1..n) \X (1..n) : Value(q[1], q[2])}}

\* C16: in production a delivery whose signature verifies against none of
\* the configured secrets is answered 400 at once, writes nothing then or
\* later, and no event is ever accepted unverified; a delivery that verifies
\* goes on to be logged.
C16_Verified ==
  [][\A h \in Hooks :
       LET verifies == \E s \in Configured : hook[h].sig = s /\ hook[h].body = "event"
       IN  /\ (hook[h].pc = "h_parse" /\ HookStep(h))
                => /\ (Production /\ ~verifies)
                        => /\ hook'[h].pc = "done" /\ hook'[h].status = 400
                           /\ hook'[h].writes = <<>>
                           /\ stripeEvents' = stripeEvents /\ users' = users
                           /\ stripeOrphans' = stripeOrphans /\ customers' = customers
                   /\ hook'[h].insecure => ~Production /\ ~verifies
                   /\ verifies => hook'[h].pc = "h_log" /\ ~hook'[h].insecure
           /\ hook[h].pc = "done" => hook'[h] = hook[h]]_vars

\* C16 witness: with secrets "a, b" in production a delivery signed with an
\* unknown secret was refused and nothing was written
C16_Witness ==
  \E h \in Hooks :
    /\ hookEnv = HookEnv("production", "", SecretAB)
    /\ hook[h].pc = "done" /\ hook[h].status = 400 /\ hook[h].cause = "parse"
    /\ hook[h].sig = <<"x">> /\ hook[h].body = "event"
    /\ \A g \in Hooks : hook[g].pc = "done" /\ hook[g].status = 400
    /\ stripeEvents = {} /\ stripeOrphans = {}

\* C17: a delivery that has written a user, orphan or customer, or is past
\* its logging step, or was answered 200, has its event in stripeEvents under
\* the event id; and stripeEvents holds at most one document per event id.
C17_LoggedFirst ==
  /\ \A h \in Hooks :
       (\/ hook[h].writes # <<>>
        \/ hook[h].pc \notin {"idle", "h_parse", "h_log", "done"}
        \/ hook[h].status = 200)
         => Logged(hook[h].ev)
  /\ \A e \in Events : Cardinality({d \in stripeEvents : d.key = e.id}) <= 1

\* C17 witness: the same checkout event was delivered twice, both deliveries
\* wrote, and one log document stands for it
C17_Witness ==
  /\ \A h \in Hooks :
       /\ hook[h].pc = "done" /\ hook[h].status = 200 /\ hook[h].ev.id = "evt_4"
       /\ hook[h].writes # <<>>
  /\ NHook >= 2
  /\ Cardinality({d \in stripeEvents : d.key = "evt_4"}) = 1

\* C18: an answered delivery got 405 exactly for a method other than POST,
\* 400 exactly when parsing/verification, event logging or the
\* checkout-completed handling threw, and 200 otherwise; a failed
\* subscription write is answered 200 with a note, after the event was logged.
C18_Acknowledge ==
  \A h \in Hooks :
    hook[h].pc = "done"
      => /\ hook[h].status \in {200, 400, 405}
         /\ hook[h].status = 405 <=> hook[h].cause = "method"
         /\ hook[h].status = 400 <=> hook[h].cause \in {"parse", "log", "checkout"}
         /\ hook[h].cause = "subwrite"
              => /\ hook[h].status = 200 /\ hook[h].note = "sub write failed (see logs)"
                 /\ hook[h].ev.type \in SubTypes /\ hook[h].writes = <<>>
         /\ hook[h].status = 200 => Logged(hook[h].ev)
         /\ hook[h].cause = "" => hook[h].status = 200 /\ hook[h].note = ""

\* C18 witness: one subscription event whose write failed was acknowledged
\* with the note, and one checkout event whose mapping write failed got 400
C18_Witness ==
  \E h1, h2 \in Hooks :
    /\ hook[h1].pc = "done" /\ hook[h1].status = 200 /\ hook[h1].cause = "subwrite"
    /\ hook[h1].ev.id = "evt_1" /\ Logged(hook[h1].ev)
    /\ hook[h2].pc = "done" /\ hook[h2].status = 400 /\ hook[h2].cause = "checkout"
    /\ hook[h2].ev.id = "evt_4" /\ Logged(hook[h2].ev)

\* the session of a checkout delivery carries metadata.uid and a string customer id
IsCheckout(h) == hook[h].ev.type = CheckoutType
BothValues(session) == session.uid # NoUid /\ session.customer.kind = "string"
SameMapping == \A u \in Uids : users'[u].stripeCustomerId = users[u].stripeCustomerId

\* C19 as stated: a checkout session of another mode changes no record; a
\* subscription session with metadata.uid and a string customer id, once
\* answered 200, has set users/{uid}.stripeCustomerId and stamped the uid into
\* the customer's metadata; a session lacking either value changes no user's
\* stripeCustomerId.
C19_Mapping ==
  [][\A h \in Hooks :
       (IsCheckout(h) /\ HookStep(h))
         => LET session == hook[h].ev.session
                cid == SessionCustomerId(session)
            IN  /\ session.mode # "subscription"
                     => /\ hook'[h].writes = <<>>
                        /\ users' = users /\ customers' = customers
                        /\ stripeOrphans' = stripeOrphans
                /\ (session.mode = "subscription" /\ BothValues(session))
                     => /\ (hook[h].pc = "h_map" /\ hook'[h].pc # "done")
                             => users'[session.uid].stripeCustomerId = cid
                        /\ hook'[h].status = 200
                             => /\ HasWrite(hook'[h], "users", session.uid, "map")
                                /\ HasWrite(hook'[h], "customers", cid, "stamp")
                /\ (session.mode = "subscription" /\ ~BothValues(session))
                     => SameMapping /\ customers' = customers]_vars

\* C19 amended: the uid is stamped when the processor accepts the retrieve
\* and the update (a failure there is ignored and the user record is set all
\* the same); a session lacking either value skips the mapping and the stamp,
\* and the only user record it can change is the one the hydration of its
\* subscription files the snapshot under, customer id included.
C19_MappingOrHydration ==
  [][\A h \in Hooks :
       (IsCheckout(h) /\ HookStep(h))
         => LET session == hook[h].ev.session
                cid == SessionCustomerId(session)
            IN  /\ session.mode # "subscription"
                     => /\ hook'[h].writes = <<>>
                        /\ users' = users /\ customers' = customers
                        /\ stripeOrphans' = stripeOrphans
                /\ (session.mode = "subscription" /\ BothValues(session))
                     => /\ (hook[h].pc = "h_map" /\ hook'[h].pc # "done")
                             => users'[session.uid].stripeCustomerId = cid
                        /\ hook'[h].status = 200
                             => HasWrite(hook'[h], "users", session.uid, "map")
                        /\ (hook[h].pc = "h_stamp" /\ HookWrites(h))
                             => /\ LastWrite(h) = [coll |-> "customers", key |-> cid,
                                                   kind |-> "stamp"]
                                /\ \E c \in customers' : c.id = cid /\ c.uid = session.uid
                        /\ (hook[h].pc = "h_stamp" /\ ~HookWrites(h)) => customers' = customers
                /\ (session.mode = "subscription" /\ ~BothValues(session))
                     => /\ customers' = customers
                        /\ hook'[h].pc \notin {"h_stamp", "h_map"}
                        /\ ~SameMapping
                             => /\ hook[h].ctx = "hydrate" /\ HookWrites(h)
                                /\ LastWrite(h).kind = "snapshot"
                                /\ users' = [users EXCEPT ![LastWrite(h).key] =
                                                             payload(hook[h].sub)]]_vars

\* C19 witness: the session of u1 with customer c2 was handled: the customer
\* carries u1 and users/u1 points at c2
C19_Witness ==
  \E h \in Hooks :
    /\ hook[h].pc = "done" /\ hook[h].status = 200 /\ hook[h].ev.id = "evt_4"
    /\ HasWrite(hook[h], "customers", "c2", "stamp")
    /\ HasWrite(hook[h], "users", "u1", "map")
    /\ MetaUid("c2") = "u1"
    /\ users["u1"].stripeCustomerId = "c2"


\* a billing-portal request of an authenticated caller is answered in this step
PortalAnswered(p) ==
  /\ portal[p].pc # "done"
  /\ portal'[p].pc = "done"
  /\ portal'[p].uid # NoUid

\* C20: an authenticated POST to the billing-portal route, none of whose calls to
\* the processor failed, is answered 200 with a portal session for the customer
\* it resolved, and that customer carries the caller's uid in its metadata when
\* the answer is sent.
C20_CallerCustomer ==
  [][\A p \in Portals :
       (PortalAnswered(p) /\ portal'[p].failed = "") =>
         /\ portal'[p].status = 200
         /\ portal'[p].session.customer = portal'[p].customerId
         /\ \E c \in customers' : c.id = portal'[p].session.customer /\ c.uid = portal'[p].uid]_vars


\* a live-status request is answered 200 in this step
LiveAnswered(l) ==
  /\ statusLive[l].pc # "done"
  /\ statusLive'[l].pc = "done"
  /\ statusLive'[l].status = 200

\* the customers linked to a caller by metadata uid, email or completed checkout session
Linked(uid, email) ==
  {c.id : c \in {d \in customers : d.uid = uid \/ (email # NoEmail /\ d.email = email)}}
  \cup {s.customer.id :
          s \in {t \in sessions : t.uid = uid /\ t.status = "complete" /\ t.customer.id # NoCust}}

\* the subscriptions of a list that are in a status the handler lists
ListedSubs(list) ==
  SelectSeq(list, LAMBDA x : x.status \in {"active", "trialing", "past_due", "unpaid",
                                            "canceled", "incomplete"})

\* the answer shows this subscription, or no_subscription when there is none
Shows(body, listed) ==
  IF listed = <<>> THEN body.status = "no_subscription"
  ELSE /\ body.status = listed[1].status
       /\ body.displayStatus = IF listed[1].status = "canceled" THEN "canceled"
                               ELSE IF listed[1].cancel_at_period_end THEN "canceling"
                               ELSE listed[1].status

\* the live-status route changes no customer, user record or quota document, and a
\* caller with no linked customer is told no_customer
LiveFrame(l) ==
  /\ customers' = customers /\ users' = users /\ quota' = quota
  /\ LiveAnswered(l) =>
       LET r == statusLive'[l]
       IN  /\ Linked(r.uid, r.email) = {} => r.body.status = "no_customer"
           /\ (r.body.status = "no_customer" /\ r.failed = "") => Linked(r.uid, r.email) = {}
           /\ r.body.status # "no_customer" => r.body.customerId \in Linked(r.uid, r.email)

Effects == <<customers, subs, sessions, users, quota, stripeEvents, stripeOrphans, avatars>>

\* a request arrived in this step: before and after are its records
Arrived(before, after) == before.pc = "idle" /\ after.pc # "idle"

\* the request was turned away with this status, nothing written and nothing called
TurnedAway(after, status) ==
  /\ after.pc = "done"
  /\ after.status = status
  /\ Effects' = Effects

\* 405 for another method than the route's, 401 without a bearer token
Gate(before, after, method) ==
  Arrived(before, after) =>
    /\ after.method # method => TurnedAway(after, 405)
    /\ (after.method = method /\ after.token = "") => TurnedAway(after, 401)

\* the four routes whose first checks are the method and the token
GateOthers ==
  /\ Gate(checkout, checkout', "POST")
  /\ Gate(upload, upload', "POST")
  /\ \A p \in Portals : Gate(portal[p], portal'[p], "POST")
  /\ \A l \in Lives : Gate(statusLive[l], statusLive'[l], "GET")

\* C22 (as stated): every token-protected route answers 405 for a wrong method and
\* 401 when the Authorization header carries no Bearer token, and in both cases calls
\* nothing and writes nothing.
C22_Gate ==
  [][/\ GateOthers
     /\ \A r \in Reqs :
          Arrived(req[r], req'[r]) =>
            /\ req'[r].method # "POST" => TurnedAway(req'[r], 405)
            /\ (req'[r].method = "POST" /\ ~req'[r].bearer) => TurnedAway(req'[r], 401)]_vars

\* C22 (amended): as above, except that the compare route, when OPENAI_API_KEY is not
\* configured, answers a POST with 500 CONFIG before it looks at the token.
C22_GateConfigured ==
  [][/\ GateOthers
     /\ \A r \in Reqs :
          Arrived(req[r], req'[r]) =>
            /\ req'[r].method # "POST" => TurnedAway(req'[r], 405)
            /\ (req'[r].method = "POST" /\ ~req'[r].openaiKey) =>
                 TurnedAway(req'[r], 500) /\ req'[r].code = "CONFIG"
            /\ (req'[r].method = "POST" /\ req'[r].openaiKey /\ ~req'[r].bearer) =>
                 TurnedAway(req'[r], 401)]_vars

\* a POST without token was answered 401 by the compare route
C22_Witness ==
  \E r \in Reqs :
    /\ req[r].pc = "done" /\ req[r].method = "POST" /\ ~req[r].bearer
    /\ req[r].status = 401 /\ req[r].code = "NO_AUTH"


\* line 285: the page shows remaining/dailyLimit
Displayed(pg) == pg.remaining # NullNumber /\ pg.dailyLimit # NullNumber

\* C23: on the utility page a compare request is sent only when the live status is
\* active or trialing and both images are chosen; the displayed remaining count is
\* within 0..dailyLimit, drops by one (never below 0) after a successful comparison,
\* and is 0 after NO_PLAN, after LIMIT_EXCEEDED, and whenever the live-status answer
\* the page received is a non-active status.
C23_PageCounter ==
  [][/\ page'.sent > page.sent =>
          page.subStatus \in {"active", "trialing"} /\ page.image1 /\ page.image2
     /\ Displayed(page') => page'.remaining \in 0..page'.dailyLimit
     /\ (page'.results > page.results /\ Displayed(page)) =>
          page'.remaining = IF page.remaining > 0 THEN page.remaining - 1 ELSE 0
     /\ (page.loading /\ page'.last \in {"NO_PLAN", "LIMIT_EXCEEDED"}) => page'.remaining = 0
     /\ (page'.answered = "ok" /\ page'.subStatus \notin {"active", "trialing"}
         /\ Displayed(page')) => page'.remaining = 0]_vars


\* the customers that stood at the processor before any request, and those the
\* requests created
Preexisting == {c \in customers : c.id \in {"c1", "c2"}}
AutoCreated(u) == {c \in customers : c.uid = u /\ c.id \notin {"c1", "c2"}}

\* the customer ids that calls for u hold once resolveStripeCustomerId has returned
ResolvedIds(u) ==
  {req[r].cust : r \in {q \in Reqs : req[q].uid = u /\ req[q].pc \in {"q_subs", "q_txget", "q_txcommit"}}}

\* C24: for a user without cached customer id and without existing customer, concurrent
\* checkAndConsumeQuota calls auto-create at most one customer and all resolve to the
\* same customer id.
C24_OneCustomer ==
  \A u \in Uids :
    (Preexisting = {} /\ users[u].stripeCustomerId \notin {"c1", "c2"}) =>
      /\ Cardinality(AutoCreated(u)) <= 1
      /\ Cardinality(ResolvedIds(u)) <= 1


\* the customers linked to u by metadata uid or by email
LinkedCustomers(u) ==
  {c \in customers : c.uid = u \/ (AuthEmail(u) # NoEmail /\ c.email = AuthEmail(u))}

\* u holds a usable subscription with a positive limit on a linked customer
HoldsPlan(u) == \E c \in LinkedCustomers(u) : LiveLimit(c.id) > 0

\* C25: a user who holds a usable subscription on a customer linked to them by
\* metadata uid or email is never denied with NO_PLAN, also after an earlier denial
\* followed by a purchase through /api/checkout.
C25_NeverDenied ==
  [][\A r \in Reqs :
       (StepFrom(r, "q_subs") /\ req'[r].qres = "NO_PLAN" /\ req[r].uid \in Uids)
         => ~HoldsPlan(req[r].uid)]_vars


\* the customer whose subscription changes tier, and its owner
PlanCustomer == Cust1.id
PlanOwner == Cust1.uid

\* a call of the owner that ran its plan lookup on the subscription as it stands now
SawCurrentPlan(r) ==
  /\ req[r].uid = PlanOwner
  /\ req[r].plan = LiveTier(PlanCustomer)
  /\ req[r].max = LiveLimit(PlanCustomer)

\* C26 as stated: the count stored for today never exceeds the max of the plan the
\* user currently holds, also after the plan changed during the day.
C26_WithinCurrentPlan ==
  (/\ quota[PlanOwner].exists
   /\ quota[PlanOwner].day = todayKey(today)
   /\ LiveTier(PlanCustomer) \in Plans)
    => quota[PlanOwner].count <= LiveLimit(PlanCustomer)

\* C26 amended: the stored count never exceeds the document's own max field, and a
\* call that looks the plan up when the count used on its day is already at or above
\* the current plan's max fails with LIMIT_EXCEEDED and leaves the document unchanged;
\* the count left from a higher tier stays above the current plan's max until the
\* day ends.
C26_WithinOwnMax ==
  /\ [](\A u \in Uids : quota[u].exists => quota[u].count <= quota[u].max)
  /\ [][\A r \in Reqs :
         (/\ StepFrom(r, "q_txget")
          /\ SawCurrentPlan(r)
          /\ req'[r].qres # "ERROR"
          /\ UsedOn(quota[PlanOwner], req[r].day) >= LiveLimit(PlanCustomer))
           => req'[r].qres = "LIMIT_EXCEEDED" /\ quota' = quota]_vars

\* a call wrote the document under a higher tier, the plan was moved down to a tier
\* whose max the count has reached, and a later call was refused
C26_Witness ==
  \E r \in Reqs :
    /\ req[r].pc = "done" /\ req[r].qres = "LIMIT_EXCEEDED"
    /\ SawCurrentPlan(r)
    /\ quota[PlanOwner].ver > 0
    /\ quota[PlanOwner].day = todayKey(today)
    /\ quota[PlanOwner].plan # req[r].plan
    /\ quota[PlanOwner].max > req[r].max
    /\ quota[PlanOwner].count >= req[r].max


\* the order in which the processor creates the events of one subscription: it is
\* created, then updated, then deleted
EventCreated(ev) ==
  IF ev.type = "customer.subscription.created" THEN 1
  ELSE IF ev.type = "customer.subscription.deleted" THEN 3
  ELSE 2

\* the answered deliveries of subscription events that wrote the snapshot of users/u
WroteSnapshot(h, u) ==
  \E i \in 1..Len(hook[h].writes) :
     hook[h].writes[i] = [coll |-> "users", key |-> u, kind |-> "snapshot"]
SnapshotDeliveries(u) ==
  {h \in Hooks : hook[h].pc = "done" /\ hook[h].ev.type \in SubTypes /\ WroteSnapshot(h, u)}

\* of those, a delivery of the most recently created event
LatestDelivery(u) ==
  CHOOSE h \in SnapshotDeliveries(u) :
    \A k \in SnapshotDeliveries(u) : EventCreated(hook[h].ev) >= EventCreated(hook[k].ev)

\* C27: once the deliveries are answered, the snapshot cached on the user record is
\* that of the most recently created subscription event among those written for the
\* user, in whatever order they were delivered.
C27_LatestWins ==
  \A u \in Uids :
    (/\ \A h \in Hooks : hook[h].pc \in {"idle", "done"}
     /\ \A h \in Hooks : WroteSnapshot(h, u) => h \in SnapshotDeliveries(u)
     /\ SnapshotDeliveries(u) # {})
      => users[u].snapshot = payload(hook[LatestDelivery(u)].ev.sub).snapshot

====
